---- MODULE Spec2Model ----
(***************************************************************************)
(* Observation store (core/database.py), ingestion engine                  *)
(* (core/data_collector.py) and threat classifier (core/threat_detector.py)*)
(* of the SEO agent, as a state machine over the SQLite tables.            *)
(*                                                                         *)
(* Tables are sets of rows (records).  SQL NULL / Python None is NULL.     *)
(* Every store method opens its own connection and commits on leaving the  *)
(* `with` block, so a sequential call is one atomic action; the racing     *)
(* specifications split a method at its statement boundaries.              *)
(***************************************************************************)
EXTENDS Integers, Sequences, FiniteSets, TLC

\* ------------------------------------------------------------------ bounds
MaxClock == 2          \* wall clock runs over 0..MaxClock
TicksPerDay == 2       \* clock ticks per calendar day
MaxSessions == 1       \* at most this many monitoring sessions are created
MaxPosRows == 2        \* direct save_position calls insert at most this many rows
MaxCompRows == 2       \* the competitors table grows to at most this many rows
MaxAppearances == 3    \* total_appearances of a domain is followed up to this value
MaxBatches == 1        \* check_positions batches started in the ingestion specification

NULL == -1

\* --------------------------------------------------------------- variables
VARIABLES
    projects,      \* table projects: [id, name, domain]
    keywords,      \* table keywords: [id, project_id, keyword, is_active]
    sessions,      \* table monitoring_sessions
    positions,     \* table positions
    competitors,   \* table competitors
    domains,       \* table domains (DomainReference)
    snapshots,     \* table snapshots
    nextId,        \* AUTOINCREMENT counters, one per table; batches started
    now,           \* wall clock (CURRENT_TIMESTAMP / datetime.now())
    last,          \* the most recent call: its arguments, what it found, its result
    proc           \* in-flight calls of the concurrent / batch specifications

vars == <<projects, keywords, sessions, positions, competitors, domains,
          snapshots, nextId, now, last, proc>>

tables == <<projects, keywords, sessions, positions, competitors, domains, snapshots>>

\* ------------------------------------------------------------------- time
\* A timestamp is split into its calendar date and its time of day
\* (datetime.date() / datetime.time(), isoformat strings in the tables).
DateOf(ts) == ts \div TicksPerDay
TimeOf(ts) == ts % TicksPerDay

\* Input domains of direct store calls.
KeywordIds == {1, 2}
SessionIds == {1, 2}
CheckDates == {0, 1}
Engines == {"yandex", "google"}

Tick ==
    /\ now < MaxClock
    /\ now' = now + 1
    /\ UNCHANGED <<tables, nextId, last, proc>>

\* ------------------------------------------------------------------- init
NoCall == [op |-> "none"]

Init ==
    /\ projects = {}
    /\ keywords = {}
    /\ sessions = {}
    /\ positions = {}
    /\ competitors = {}
    /\ domains = {}
    /\ snapshots = {}
    /\ nextId = [projects |-> 1, keywords |-> 1, sessions |-> 1, positions |-> 1,
                 competitors |-> 1, domains |-> 1, snapshots |-> 1, batches |-> 1]
    /\ now = 0
    /\ last = NoCall
    /\ proc = <<>>

\* ---------------------------------------------------------------- sessions
\* create_monitoring_session: INSERT ... VALUES (?, ?, CURRENT_TIMESTAMP, 'running')
create_monitoring_session(project_id, session_name) ==
    /\ nextId.sessions <= MaxSessions
    /\ sessions' = sessions \cup
          {[session_id |-> nextId.sessions, project_id |-> project_id,
            session_name |-> session_name, start_time |-> now, end_time |-> NULL,
            status |-> "running", total_keywords |-> NULL,
            completed_keywords |-> NULL]}
    /\ nextId' = [nextId EXCEPT !.sessions = @ + 1]
    /\ last' = [op |-> "create_monitoring_session", ret |-> nextId.sessions]

\* The row complete_monitoring_session's UPDATE leaves for a row it matches.
CompletedRow(s, total_keywords, completed_keywords) ==
    [s EXCEPT !.end_time = now,
              !.status = "completed",
              !.total_keywords = IF total_keywords # NULL THEN total_keywords ELSE @,
              !.completed_keywords =
                  IF completed_keywords # NULL THEN completed_keywords ELSE @]

\* complete_monitoring_session: UPDATE monitoring_sessions SET ... WHERE session_id = ?
complete_monitoring_session(session_id, total_keywords, completed_keywords) ==
    /\ sessions' = {IF s.session_id = session_id
                       THEN CompletedRow(s, total_keywords, completed_keywords)
                       ELSE s : s \in sessions}
    /\ last' = [op |-> "complete_monitoring_session", session_id |-> session_id]

\* error_message[:100] over the messages of the model (all shorter than 100).
FailedName(error_message) == "FAILED: " \o error_message

\* Mutant: the UPDATE of fail_monitoring_session sets end_time and the name
\* but not the status.
FailedRow_keeps_status(s, error_message) ==
    [s EXCEPT !.end_time = now,
              !.session_name = IF error_message # "" THEN FailedName(error_message) ELSE @]

\* The row fail_monitoring_session's UPDATE leaves for a row it matches;
\* "if error_message:" is false for None and for the empty string alike, and
\* "" stands for both.
FailedRow(s, error_message) ==
    [s EXCEPT !.end_time = now,
              !.status = "failed",
              !.session_name = IF error_message # "" THEN FailedName(error_message) ELSE @]

\* fail_monitoring_session: UPDATE monitoring_sessions SET ... WHERE session_id = ?
fail_monitoring_session(session_id, error_message) ==
    /\ sessions' = {IF s.session_id = session_id
                       THEN FailedRow(s, error_message)
                       ELSE s : s \in sessions}
    /\ last' = [op |-> "fail_monitoring_session", session_id |-> session_id]

\* Session creation by an orchestrating caller (project 1 is site.ru's, 2 is
\* another project's).
ProjectIds == {1, 2}

CreateSession ==
    /\ \E project_id \in ProjectIds : create_monitoring_session(project_id, "run")
    /\ UNCHANGED <<projects, keywords, positions, competitors, domains, snapshots,
                   now, proc>>

KeywordCounts == {NULL, 1, 2}
ErrorMessages == {"", "boom"}

CompleteSession ==
    /\ \E session_id \in SessionIds, total_keywords \in KeywordCounts,
          completed_keywords \in KeywordCounts :
          complete_monitoring_session(session_id, total_keywords, completed_keywords)
    /\ UNCHANGED <<projects, keywords, positions, competitors, domains, snapshots,
                   nextId, now, proc>>

FailSession ==
    /\ \E session_id \in SessionIds, error_message \in ErrorMessages :
          fail_monitoring_session(session_id, error_message)
    /\ UNCHANGED <<projects, keywords, positions, competitors, domains, snapshots,
                   nextId, now, proc>>

\* The life of monitoring sessions: created, completed and failed by callers
\* while time passes.
NextSession ==
    \/ Tick
    \/ CreateSession
    \/ CompleteSession
    \/ FailSession

SpecSession == Init /\ [][NextSession]_vars

\* C10: once a session's status is 'completed' or 'failed', no later
\* complete_monitoring_session or fail_monitoring_session call changes its
\* status, end_time or counters (the row stays as it is).
C10_TerminalSessionsAreFinal ==
    [][\A s \in sessions : s.status # "running" => s \in sessions']_vars

\* --------------------------------------------------------------- positions
\* What one position check yields: <<check_time, position, url, total_results>>;
\* position is NULL when the domain is not in the result window.
PosChecks == {<<0, NULL, "", 0>>, <<1, 5, "u5", 100>>}

\* Uniqueness of the positions table: one row per
\* (project_id, keyword_id, check_date, search_engine).
PositionsKey(r) == <<r.project_id, r.keyword_id, r.check_date, r.search_engine>>

\* Mutant: a positions table without the uniqueness constraint.
PositionsUnique_absent(rows) == TRUE

PositionsUnique(rows) ==
    \A r1 \in rows : \A r2 \in rows : PositionsKey(r1) = PositionsKey(r2) => r1 = r2

\* save_position, SELECT id FROM positions WHERE project_id = ? AND
\* keyword_id = ? AND check_date = ? AND search_engine = ?
save_position_select(a) ==
    {r \in positions : PositionsKey(r) = PositionsKey(a)}

\* Mutant: the UPDATE forgets check_time and url.
save_position_update_stale(r, a) ==
    [r EXCEPT !.position = a.position,
              !.total_results = a.total_results,
              !.session_id = IF a.session_id # NULL THEN a.session_id ELSE @]

\* Mutant: the UPDATE assigns session_id = ? without COALESCE.
save_position_update_erases_session(r, a) ==
    [r EXCEPT !.position = a.position,
              !.url = a.url,
              !.total_results = a.total_results,
              !.check_time = a.check_time,
              !.session_id = a.session_id]

\* Mutant: the UPDATE keeps a tag the row already has, COALESCE(session_id, ?).
save_position_update_keeps_first_session(r, a) ==
    [r EXCEPT !.position = a.position,
              !.url = a.url,
              !.total_results = a.total_results,
              !.check_time = a.check_time,
              !.session_id = IF @ # NULL THEN @ ELSE a.session_id]

\* save_position, UPDATE positions SET position, url, total_results,
\* check_time, session_id = COALESCE(?, session_id) WHERE id = ?
save_position_update(r, a) ==
    [r EXCEPT !.position = a.position,
              !.url = a.url,
              !.total_results = a.total_results,
              !.check_time = a.check_time,
              !.session_id = IF a.session_id # NULL THEN a.session_id ELSE @]

\* save_position, INSERT INTO positions (...) VALUES (...) RETURNING id
save_position_insert(a, id) ==
    [id |-> id, project_id |-> a.project_id, keyword_id |-> a.keyword_id,
     session_id |-> a.session_id, check_date |-> a.check_date,
     check_time |-> a.check_time, position |-> a.position, url |-> a.url,
     total_results |-> a.total_results, search_engine |-> a.search_engine]

\* The positions table and the id returned after save_position(a), as
\* <<rows, returned id>>, for every row the SELECT may fetch.
save_position_results(a) ==
    LET found == save_position_select(a) IN
    IF found # {}
    THEN {<<(positions \ {r}) \cup {save_position_update(r, a)}, r.id>> : r \in found}
    ELSE {<<positions \cup {save_position_insert(a, nextId.positions)},
            nextId.positions>>}

PositionArgs(project_id, keyword_id, check_date, check_time, position, url, total_results, search_engine, session_id) ==
    [project_id |-> project_id, keyword_id |-> keyword_id,
     check_date |-> check_date, check_time |-> check_time,
     position |-> position, url |-> url, total_results |-> total_results,
     search_engine |-> search_engine, session_id |-> session_id]

\* One sequential call of save_position.
save_position(a) ==
    \E res \in save_position_results(a) :
        /\ positions' = res[1]
        /\ nextId' = [nextId EXCEPT !.positions =
                         IF save_position_select(a) = {} THEN @ + 1 ELSE @]
        /\ last' = [op |-> "save_position", args |-> a, ret |-> res[2],
                    found |-> {r.id : r \in save_position_select(a)},
                    tagged |-> {r.session_id : r \in save_position_select(a)}]

\* The keys (keyword_id, check_date, search_engine) of the direct calls: one
\* key and the three that differ from it in one column.
PosKeys ==
    {key \in KeywordIds \X CheckDates \X Engines :
        Cardinality({i \in 1..3 : key[i] # <<1, 0, "yandex">>[i]}) <= 1}

SavePosition ==
    \E key \in PosKeys, c \in PosChecks, sid \in {NULL} \cup SessionIds :
        LET a == PositionArgs(1, key[1], key[2], c[1], c[2], c[3], c[4], key[3], sid) IN
        /\ save_position_select(a) = {} => nextId.positions <= MaxPosRows
        /\ save_position(a)
        /\ UNCHANGED <<projects, keywords, sessions, competitors, domains,
                       snapshots, now, proc>>

\* The position store under sequential save_position calls.
Next == SavePosition

Spec == Init /\ [][Next]_vars

\* C1: after any sequence of save_position calls there is at most one row per
\* (project_id, keyword_id, check_date, search_engine); a call that hits an
\* existing key returns that row's id, and the row then carries the call's
\* position, url, total_results and check_time.
C1_OneRowPerKeyLastWins ==
    /\ PositionsUnique(positions)
    /\ last.op = "save_position" =>
          /\ last.found # {} => last.found = {last.ret}
          /\ \E r \in positions :
                /\ r.id = last.ret
                /\ PositionsKey(r) = PositionsKey(last.args)
                /\ r.position = last.args.position
                /\ r.url = last.args.url
                /\ r.total_results = last.args.total_results
                /\ r.check_time = last.args.check_time

\* A call hit an existing key and replaced a different position.
C1_Witness ==
    /\ last.op = "save_position"
    /\ last.found # {}
    /\ last.args.position = 5
    /\ Cardinality(positions) = 2

\* C12: a save_position call that hits an existing row leaves the row's
\* session_id as it was when the call's session_id is null, and sets it to the
\* call's session_id otherwise.
C12_SessionIdCoalesce ==
    [][last'.op = "save_position" =>
          \A r \in positions : r.id \in last'.found =>
              \E r2 \in positions' :
                  /\ r2.id = r.id
                  /\ r2.session_id = IF last'.args.session_id = NULL
                                     THEN r.session_id
                                     ELSE last'.args.session_id]_vars

\* A session-less call has just updated a row that carries a session tag.
C12_Witness ==
    /\ last.op = "save_position"
    /\ last.found # {}
    /\ last.args.session_id = NULL
    /\ \E r \in positions : r.id = last.ret /\ r.session_id \in SessionIds

\* ------------------------------------------------------------- competitors
\* SEODatabase.__init__ / _init_database: every new store handle runs
\* DROP TABLE IF EXISTS competitors and creates the table again, empty,
\* with a fresh AUTOINCREMENT sequence.
NewHandle ==
    /\ competitors' = {}
    /\ nextId' = [nextId EXCEPT !.competitors = 1]
    /\ last' = [op |-> "SEODatabase"]
    /\ UNCHANGED <<projects, keywords, sessions, positions, domains, snapshots,
                   now, proc>>

\* CHECK(competitor_position >= 1 AND competitor_position <= 100)
MinCompetitorPosition == 1
MaxCompetitorPosition == 100

\* UNIQUE(project_id, keyword_id, check_date, check_time, competitor_domain,
\*        competitor_position)
CompetitorsKey(r) ==
    <<r.project_id, r.keyword_id, r.check_date, r.check_time,
      r.competitor_domain, r.competitor_position>>

CompetitorsUnique(rows) ==
    \A r1 \in rows : \A r2 \in rows : CompetitorsKey(r1) = CompetitorsKey(r2) => r1 = r2

CompetitorRow(a, domain, position, id) ==
    [id |-> id, project_id |-> a.project_id, keyword_id |-> a.keyword_id,
     session_id |-> a.session_id, check_date |-> a.check_date,
     check_time |-> a.check_time, competitor_domain |-> domain,
     competitor_position |-> position]

\* Mutant: a plain INSERT into a table without the UNIQUE constraint.
insert_or_ignore_always(rows, row) == TRUE

\* INSERT OR IGNORE INTO competitors: TRUE iff the row is inserted; a UNIQUE
\* or CHECK violation silently skips the row.
insert_or_ignore(rows, row) ==
    /\ \A r \in rows : CompetitorsKey(r) # CompetitorsKey(row)
    /\ row.competitor_position >= MinCompetitorPosition
    /\ row.competitor_position <= MaxCompetitorPosition

\* avg_position is kept as an exact fraction <<numerator, denominator>>:
\* new_avg = (avg_position * total_appearances + position) / new_total
new_avg(avg, total_appearances, position, new_total) ==
    <<avg[1] * total_appearances + position * avg[2], avg[2] * new_total>>

\* _update_domain_reference on the open connection; st is the connection's
\* view: tables, id counters and conn.total_changes.
update_domain_reference(st, domain, seen_date, position) ==
    IF domain = "" THEN st
    ELSE IF \E d \in st.domains : d.domain = domain
    THEN LET row == CHOOSE d \in st.domains : d.domain = domain
             new_total == row.total_appearances + 1
         IN [st EXCEPT
               !.domains = (@ \ {row}) \cup
                   {[row EXCEPT !.last_seen = seen_date,
                                !.total_appearances = new_total,
                                !.avg_position = new_avg(row.avg_position,
                                    row.total_appearances, position, new_total)]},
               !.total_changes = @ + 1]
    ELSE [st EXCEPT
               !.domains = @ \cup
                   {[id |-> st.nextDomain, domain |-> domain,
                     first_seen |-> seen_date, last_seen |-> seen_date,
                     total_appearances |-> 1, avg_position |-> <<position, 1>>]},
               !.nextDomain = @ + 1,
               !.total_changes = @ + 1]

\* The guard in front of _update_domain_reference: conn.total_changes > 0.
\* total_changes counts every row changed on the connection since it was
\* opened, not the rows changed by the last statement.
insert_went_through(st) == st.total_changes > 0

\* One iteration of the loop of save_competitors.
save_competitors_entry(a, comp, st) ==
    LET domain == comp.domain
        position == comp.position
        row == CompetitorRow(a, domain, position, st.nextCompetitor)
    IN  IF domain = "" \/ position = 0 THEN st
        ELSE LET st1 == IF insert_or_ignore(st.competitors, row)
                        THEN [st EXCEPT !.competitors = @ \cup {row},
                                        !.nextCompetitor = @ + 1,
                                        !.total_changes = @ + 1]
                        ELSE st
             IN  IF insert_went_through(st1)
                 THEN update_domain_reference(st1, domain, a.check_date, position)
                 ELSE st1

RECURSIVE save_competitors_loop(_, _, _)
save_competitors_loop(a, comps, st) ==
    IF comps = <<>> THEN st
    ELSE save_competitors_loop(a, Tail(comps), save_competitors_entry(a, Head(comps), st))

\* A fresh connection: conn.total_changes starts at 0.
Connection ==
    [competitors |-> competitors, domains |-> domains,
     nextCompetitor |-> nextId.competitors, nextDomain |-> nextId.domains,
     total_changes |-> 0]

\* The connection of save_competitors when the loop ends and it commits.
save_competitors_result(a) == save_competitors_loop(a, a.competitors, Connection)

\* One call of save_competitors.
save_competitors(a) ==
    LET st == save_competitors_result(a) IN
    /\ competitors' = st.competitors
    /\ domains' = st.domains
    /\ nextId' = [nextId EXCEPT !.competitors = st.nextCompetitor,
                                !.domains = st.nextDomain]

CompetitorArgs(project_id, keyword_id, check_date, check_time, comps, session_id) ==
    [project_id |-> project_id, keyword_id |-> keyword_id,
     check_date |-> check_date, check_time |-> check_time,
     competitors |-> comps, session_id |-> session_id]

\* Competitor entries as the position source may return them: a missing
\* domain is "", a missing position is 0 (comp.get(...) or default).
A1 == [domain |-> "a.ru", position |-> 1]
B2 == [domain |-> "b.ru", position |-> 2]
NoDomain == [domain |-> "", position |-> 3]
NoPosition == [domain |-> "a.ru", position |-> 0]
B101 == [domain |-> "b.ru", position |-> 101]

\* The competitor lists submitted: single entries, a list that repeats an
\* entry, and valid entries before and after skipped or rejected ones.
CompLists ==
    {<<A1>>, <<B2>>, <<A1, A1>>, <<A1, B2>>, <<A1, B101>>, <<B101, A1>>,
     <<NoDomain, B2>>, <<NoPosition, B2>>}

SaveCompetitors ==
    \E d \in CheckDates, comps \in CompLists :
        LET a == CompetitorArgs(1, 1, d, 0, comps, NULL) IN
        /\ save_competitors(a)
        /\ nextId'.competitors <= MaxCompRows + 1
        /\ \A dr \in domains' : dr.total_appearances <= MaxAppearances
        /\ last' = [op |-> "save_competitors", args |-> a,
                    before |-> {CompetitorsKey(r) : r \in competitors}]
        /\ UNCHANGED <<projects, keywords, sessions, positions, snapshots, now, proc>>

\* The competitor store under sequential save_competitors calls.
NextComp == SaveCompetitors

SpecComp == Init /\ [][NextComp]_vars

\* The competitor store when new store handles are constructed as well (every
\* DataCollector and ThreatDetector constructs its own SEODatabase).
NextHandle == NewHandle \/ SaveCompetitors

SpecHandle == Init /\ [][NextHandle]_vars

\* C3: no core operation removes a committed observation: every competitor
\* row and every position row present before a step is present after it.
C3_ObservationsNeverRemoved ==
    [][/\ \A r \in competitors : r \in competitors'
       /\ \A r \in positions : \E q \in positions' : q.id = r.id]_vars

\* total_appearances of a competitor domain, 0 when it has no DomainReference.
Appearances(name) ==
    IF \E d \in domains : d.domain = name
    THEN (CHOOSE d \in domains : d.domain = name).total_appearances
    ELSE 0

CompetitorDomains == {"a.ru", "b.ru"}

\* C4: a DomainReference is updated exactly once per newly inserted competitor
\* row and never for an ignored or rejected entry: while no row is removed,
\* total_appearances of a domain equals its number of competitor rows.
C4_UpdatedOncePerNewRow ==
    \A name \in CompetitorDomains :
        Appearances(name) = Cardinality({r \in competitors : r.competitor_domain = name})

\* The keys of the entries of a call that the table accepts.
ValidKeys(a) ==
    {<<a.project_id, a.keyword_id, a.check_date, a.check_time,
       a.competitors[i].domain, a.competitors[i].position>> :
        i \in {j \in DOMAIN a.competitors :
                 /\ a.competitors[j].domain # ""
                 /\ a.competitors[j].position >= 1
                 /\ a.competitors[j].position <= 100}}

\* C5: the competitors table holds at most one row per (project_id,
\* keyword_id, check_date, check_time, competitor_domain, competitor_position);
\* a call that re-submits a stored key completes, adds no row for it, and
\* still stores its other entries.
C5_NoDuplicateCompetitors ==
    /\ CompetitorsUnique(competitors)
    /\ last.op = "save_competitors" =>
          {CompetitorsKey(r) : r \in competitors} = last.before \cup ValidKeys(last.args)

\* A call re-submitted a stored key together with a new entry.
C5_Witness ==
    /\ last.op = "save_competitors"
    /\ (ValidKeys(last.args) \cap last.before) # {}
    /\ (ValidKeys(last.args) \ last.before) # {}
    /\ Cardinality(competitors) = 2

\* C14: only entries with a non-empty domain and a position in 1..100 leave a
\* trace: every stored competitor row is such an entry and, while no row is
\* removed, every domain of the DomainReference has a stored competitor row.
C14_InvalidEntriesLeaveNoTrace ==
    /\ \A r \in competitors :
          /\ r.competitor_domain # ""
          /\ r.competitor_position >= MinCompetitorPosition
          /\ r.competitor_position <= MaxCompetitorPosition
    /\ \A d \in domains : \E r \in competitors : r.competitor_domain = d.domain

\* C29: every DomainReference row has first_seen <= last_seen, in whatever
\* order observations with different check dates are ingested.
C29_FirstSeenNotAfterLastSeen ==
    \A r \in domains : r.first_seen <= r.last_seen

\* The sum of the positions of a set of competitor rows.
RECURSIVE SumPositions(_)
SumPositions(rows) ==
    IF rows = {} THEN 0
    ELSE LET r == CHOOSE x \in rows : TRUE
         IN r.competitor_position + SumPositions(rows \ {r})

\* C15: while no row is removed, a domain with N stored competitor
\* observations has total_appearances = N, and total_appearances times
\* avg_position (the fraction <<numerator, denominator>>) is the sum of the N
\* positions.
C15_RunningMeanOfInsertions ==
    \A d \in domains :
        LET rows == {r \in competitors : r.competitor_domain = d.domain} IN
        /\ d.total_appearances = Cardinality(rows)
        /\ d.total_appearances * d.avg_position[1] = SumPositions(rows) * d.avg_position[2]

\* --------------------------------------------------------------- snapshots
\* A top-10 list is a Python list of dicts; a dict is the sequence of its
\* <<key, value>> items in insertion order.
Item(position, domain) == <<<<"position", position>>, <<"domain", domain>>>>
ItemDomainFirst(position, domain) == <<<<"domain", domain>>, <<"position", position>>>>

TopAB == <<Item("1", "a.ru"), Item("2", "b.ru")>>
TopBA == <<Item("1", "b.ru"), Item("2", "a.ru")>>
TopA == <<Item("1", "a.ru")>>
TopABDomainFirst == <<ItemDomainFirst("1", "a.ru"), ItemDomainFirst("2", "b.ru")>>

Top10s == {TopAB, TopBA, TopA, TopABDomainFirst}

\* json.dumps(top_10, ensure_ascii=False): the text as a token sequence; each
\* dict is written in the insertion order of its keys (no sort_keys).
RECURSIVE dumps_dict(_)
dumps_dict(items) ==
    IF items = <<>> THEN <<>>
    ELSE <<Head(items)[1], Head(items)[2]>> \o dumps_dict(Tail(items))

RECURSIVE json_dumps(_)
json_dumps(top_10) ==
    IF top_10 = <<>> THEN <<>>
    ELSE (<<"{">> \o dumps_dict(Head(top_10))) \o json_dumps(Tail(top_10))

TokenCode(tok) ==
    CASE tok = "{" -> 1
      [] tok = "position" -> 2
      [] tok = "domain" -> 3
      [] tok = "1" -> 2
      [] tok = "2" -> 3
      [] tok = "a.ru" -> 4
      [] tok = "b.ru" -> 5
      [] OTHER -> 6

\* hashlib.md5(top_10_json.encode('utf-8')).hexdigest(), as a digest that is
\* free of collisions on the texts of the model: the text read as a number
\* in bijective base HashBase.
HashBase == 7

\* Mutant: a digest that only covers the length of the text.
md5_length_only(text) == Len(text)

RECURSIVE md5(_)
md5(text) ==
    IF text = <<>> THEN 0
    ELSE TokenCode(Head(text)) + HashBase * md5(Tail(text))

\* UNIQUE(project_id, keyword_id, snapshot_date), the constraint whose
\* violation save_snapshot_if_changed catches as sqlite3.IntegrityError.
SnapshotsKey(r) == <<r.project_id, r.keyword_id, r.snapshot_date>>

SnapshotsUnique(rows) ==
    \A r1 \in rows : \A r2 \in rows : SnapshotsKey(r1) = SnapshotsKey(r2) => r1 = r2

SnapshotArgs(project_id, keyword_id, snapshot_date, top_10) ==
    [project_id |-> project_id, keyword_id |-> keyword_id,
     snapshot_date |-> snapshot_date, top_10 |-> top_10]

\* SELECT id, previous_top_10_hash FROM snapshots WHERE project_id = ? AND
\* keyword_id = ? AND snapshot_date = ?
snapshot_select(a) == {r \in snapshots : SnapshotsKey(r) = SnapshotsKey(a)}

\* has_changes = (current_hash != previous_hash) if previous_hash else True
has_changes(current_hash, previous_hash) ==
    IF previous_hash # NULL THEN current_hash # previous_hash ELSE TRUE

\* Mutant: the UPDATE stores the new JSON but keeps the old hash.
snapshot_update_keeps_hash(r, top_10_json, current_hash, changed) ==
    IF changed
    THEN [r EXCEPT !.top_10_json = top_10_json, !.has_changes = TRUE]
    ELSE [r EXCEPT !.has_changes = FALSE]

\* Mutant: the UPDATE of an unchanged snapshot leaves has_changes as it was.
snapshot_update_keeps_flag(r, top_10_json, current_hash, changed) ==
    IF changed
    THEN [r EXCEPT !.top_10_json = top_10_json,
                   !.previous_top_10_hash = current_hash,
                   !.has_changes = TRUE]
    ELSE r

\* The two UPDATE statements of save_snapshot_if_changed.
snapshot_update(r, top_10_json, current_hash, changed) ==
    IF changed
    THEN [r EXCEPT !.top_10_json = top_10_json,
                   !.previous_top_10_hash = current_hash,
                   !.has_changes = TRUE]
    ELSE [r EXCEPT !.has_changes = FALSE]

\* INSERT INTO snapshots (...) VALUES (?, ?, ?, ?, ?, True)
snapshot_insert(a, top_10_json, current_hash, id) ==
    [id |-> id, project_id |-> a.project_id, keyword_id |-> a.keyword_id,
     snapshot_date |-> a.snapshot_date, top_10_json |-> top_10_json,
     previous_top_10_hash |-> current_hash, has_changes |-> TRUE]

\* One sequential call of save_snapshot_if_changed; ret is its return value.
save_snapshot_if_changed(a, ret) ==
    LET top_10_json == json_dumps(a.top_10)
        current_hash == md5(top_10_json)
        found == snapshot_select(a)
    IN  IF found # {}
        THEN \E existing \in found :
               LET changed == has_changes(current_hash, existing.previous_top_10_hash) IN
               /\ snapshots' = (snapshots \ {existing}) \cup
                      {snapshot_update(existing, top_10_json, current_hash, changed)}
               /\ ret = changed
               /\ UNCHANGED nextId
        ELSE /\ snapshots' = snapshots \cup
                    {snapshot_insert(a, top_10_json, current_hash, nextId.snapshots)}
             /\ nextId' = [nextId EXCEPT !.snapshots = @ + 1]
             /\ ret = TRUE

\* The JSON stored for the key of a, NULL when there is no row.
StoredJson(a) ==
    IF snapshot_select(a) = {} THEN NULL
    ELSE (CHOOSE r \in snapshot_select(a) : TRUE).top_10_json

SaveSnapshot ==
    \E d \in CheckDates, top_10 \in Top10s, ret \in BOOLEAN :
        LET a == SnapshotArgs(1, 1, d, top_10) IN
        /\ save_snapshot_if_changed(a, ret)
        /\ last' = [op |-> "save_snapshot_if_changed", args |-> a, ret |-> ret,
                    existed |-> snapshot_select(a) # {}, stored |-> StoredJson(a)]
        /\ UNCHANGED <<projects, keywords, sessions, positions, competitors,
                       domains, now, proc>>

\* The snapshot store under sequential save_snapshot_if_changed calls.
NextSnap == SaveSnapshot

SpecSnap == Init /\ [][NextSnap]_vars

\* C6: save_snapshot_if_changed returns true iff there was no row for
\* (project_id, keyword_id, snapshot_date) or the submitted top-10, as
\* serialized, differs from the JSON the previous write stored for the key.
C6_SnapshotChangeLaw ==
    last.op = "save_snapshot_if_changed" =>
        (last.ret <=> (~last.existed \/ json_dumps(last.args.top_10) # last.stored))

\* A list with the domains of two positions swapped was saved over the
\* original list and reported as changed.
C6_WitnessSwap ==
    /\ last.op = "save_snapshot_if_changed"
    /\ last.existed
    /\ last.stored = json_dumps(TopAB)
    /\ last.args.top_10 = TopBA
    /\ last.ret

\* Two top-10 lists whose entries have the same keys and values at the same
\* list positions, in whatever order the keys were supplied.
SameEntries(t1, t2) ==
    /\ Len(t1) = Len(t2)
    /\ \A i \in DOMAIN t1 :
          {t1[i][j] : j \in DOMAIN t1[i]} = {t2[i][j] : j \in DOMAIN t2[i]}

\* C24: the content hash is insensitive to the key order inside the entries:
\* a call whose list has the same entries as the list stored for the key, up
\* to the order of the keys, returns false.
C24_KeyOrderInsensitive ==
    (last.op = "save_snapshot_if_changed" /\ last.existed) =>
        \A t \in Top10s :
            (json_dumps(t) = last.stored /\ SameEntries(t, last.args.top_10)) =>
                ~last.ret

\* C25: after any sequence of save_snapshot_if_changed calls there is exactly
\* one row per key ever written; the row of the key of a call holds the
\* serialized top-10 of that call and a has_changes flag equal to the value
\* the call returned, and the rows of the other keys are left as they were.
C25_OneSnapshotPerKeyLatestContent ==
    [][last'.op = "save_snapshot_if_changed" =>
          /\ SnapshotsUnique(snapshots')
          /\ {SnapshotsKey(r) : r \in snapshots'} =
                 {SnapshotsKey(r) : r \in snapshots} \cup {SnapshotsKey(last'.args)}
          /\ \A r \in snapshots :
                 SnapshotsKey(r) # SnapshotsKey(last'.args) => r \in snapshots'
          /\ \A r \in snapshots' :
                 SnapshotsKey(r) = SnapshotsKey(last'.args) =>
                     /\ r.top_10_json = json_dumps(last'.args.top_10)
                     /\ r.has_changes = last'.ret]_vars

\* A call repeated the content stored for its key and returned false, the
\* row of another key being stored beside it.
C25_Witness ==
    /\ last.op = "save_snapshot_if_changed"
    /\ last.existed
    /\ ~last.ret
    /\ Cardinality(snapshots) = 2
    /\ \E r \in snapshots :
          /\ SnapshotsKey(r) = SnapshotsKey(last.args)
          /\ ~r.has_changes
          /\ r.top_10_json = json_dumps(TopAB)

\* ------------------------------------------------ racing snapshot writers
\* Two concurrent calls of save_snapshot_if_changed on one key.  A call is
\* split where another connection can commit in between: after its SELECT,
\* and between the failed INSERT and _force_update_snapshot.
Writers == {1, 2}

SnapRaceStart ==
    /\ proc = <<>>
    /\ \E t1 \in Top10s, t2 \in Top10s :
          proc' = [w \in Writers |->
                     [pc |-> "select",
                      args |-> SnapshotArgs(1, 1, 0, IF w = 1 THEN t1 ELSE t2),
                      existing |-> {}, forced |-> FALSE, ret |-> FALSE]]
    /\ UNCHANGED <<tables, nextId, now, last>>

\* cursor.fetchone() of the SELECT: the row's id and hash, or nothing.
SnapRaceSelect(w) ==
    /\ proc # <<>>
    /\ proc[w].pc = "select"
    /\ \/ /\ snapshot_select(proc[w].args) = {}
          /\ proc' = [proc EXCEPT ![w].pc = "write"]
       \/ \E r \in snapshot_select(proc[w].args) :
            proc' = [proc EXCEPT ![w].pc = "write",
                       ![w].existing = {[id |-> r.id, hash |-> r.previous_top_10_hash]}]
    /\ UNCHANGED <<tables, nextId, now, last>>

\* Mutant: INSERT OR IGNORE instead of INSERT OR REPLACE.
force_update_snapshot_ignore(rows, row) ==
    IF \E r \in rows : SnapshotsKey(r) = SnapshotsKey(row) THEN rows ELSE rows \cup {row}

\* _force_update_snapshot: INSERT OR REPLACE INTO snapshots deletes the row
\* that holds the key and inserts the new one.
force_update_snapshot(rows, row) ==
    {r \in rows : SnapshotsKey(r) # SnapshotsKey(row)} \cup {row}

\* The write of the call and its commit: an UPDATE of the row read before, or
\* the INSERT, which raises sqlite3.IntegrityError when the key is taken.
SnapRaceWrite(w) ==
    /\ proc # <<>>
    /\ proc[w].pc = "write"
    /\ LET a == proc[w].args
           top_10_json == json_dumps(a.top_10)
           current_hash == md5(top_10_json)
           row == snapshot_insert(a, top_10_json, current_hash, nextId.snapshots)
       IN  IF proc[w].existing # {}
           THEN LET existing == CHOOSE x \in proc[w].existing : TRUE
                    changed == has_changes(current_hash, existing.hash) IN
                /\ snapshots' = {IF r.id = existing.id
                                   THEN snapshot_update(r, top_10_json, current_hash, changed)
                                   ELSE r : r \in snapshots}
                /\ proc' = [proc EXCEPT ![w].pc = "done", ![w].ret = changed]
                /\ last' = [op |-> "commit", writer |-> w]
                /\ UNCHANGED nextId
           ELSE IF SnapshotsUnique(snapshots \cup {row})
           THEN /\ snapshots' = snapshots \cup {row}
                /\ nextId' = [nextId EXCEPT !.snapshots = @ + 1]
                /\ proc' = [proc EXCEPT ![w].pc = "done", ![w].ret = TRUE]
                /\ last' = [op |-> "commit", writer |-> w]
           ELSE /\ proc' = [proc EXCEPT ![w].pc = "force", ![w].forced = TRUE]
                /\ UNCHANGED <<snapshots, nextId, last>>
    /\ UNCHANGED <<projects, keywords, sessions, positions, competitors, domains, now>>

\* except sqlite3.IntegrityError: return self._force_update_snapshot(...)
SnapRaceForce(w) ==
    /\ proc # <<>>
    /\ proc[w].pc = "force"
    /\ LET a == proc[w].args
           top_10_json == json_dumps(a.top_10)
           row == snapshot_insert(a, top_10_json, md5(top_10_json), nextId.snapshots)
       IN  /\ snapshots' = force_update_snapshot(snapshots, row)
           /\ nextId' = [nextId EXCEPT !.snapshots = @ + 1]
    /\ proc' = [proc EXCEPT ![w].pc = "done", ![w].ret = TRUE]
    /\ last' = [op |-> "commit", writer |-> w]
    /\ UNCHANGED <<projects, keywords, sessions, positions, competitors, domains, now>>

NextSnapRace ==
    \/ SnapRaceStart
    \/ \E w \in Writers : SnapRaceSelect(w)
    \/ \E w \in Writers : SnapRaceWrite(w)
    \/ \E w \in Writers : SnapRaceForce(w)

SpecSnapRace == Init /\ [][NextSnapRace]_vars

\* Every writer has returned or raised.
AllDone == proc # <<>> /\ \A w \in Writers : proc[w].pc \in {"done", "raised"}

\* C7: when both writers read 'no row' before either inserts, the store ends
\* with exactly one snapshot row for the key, that row holds the content of
\* the writer that committed last, and both calls return a value.
C7_NoDuplicateOnRace ==
    (AllDone /\ \A w \in Writers : proc[w].existing = {}) =>
        /\ Cardinality(snapshots) = 1
        /\ \A r \in snapshots :
              r.top_10_json = json_dumps(proc[last.writer].args.top_10)
        /\ \A w \in Writers : proc[w].pc = "done"

\* Both writers read 'no row', they wrote different lists, and the second
\* INSERT hit the key of the first.
C7_Witness ==
    /\ AllDone
    /\ \A w \in Writers : proc[w].existing = {}
    /\ proc[1].args.top_10 # proc[2].args.top_10
    /\ \E w \in Writers : proc[w].forced

\* ------------------------------------------------- racing position writers
\* Two concurrent calls of save_position on one key, split after the SELECT.
PosRaceStart ==
    /\ proc = <<>>
    /\ \E c1 \in PosChecks, c2 \in PosChecks, s1 \in {NULL, 1}, s2 \in {NULL, 2} :
          proc' = [w \in Writers |->
                     [pc |-> "select",
                      args |-> IF w = 1
                               THEN PositionArgs(1, 1, 0, c1[1], c1[2], c1[3], c1[4], "yandex", s1)
                               ELSE PositionArgs(1, 1, 0, c2[1], c2[2], c2[3], c2[4], "yandex", s2),
                      existing |-> {}, ret |-> NULL]]
    /\ UNCHANGED <<tables, nextId, now, last>>

\* row = cursor.fetchone() of the existence SELECT.
PosRaceSelect(w) ==
    /\ proc # <<>>
    /\ proc[w].pc = "select"
    /\ \/ /\ save_position_select(proc[w].args) = {}
          /\ proc' = [proc EXCEPT ![w].pc = "write"]
       \/ \E r \in save_position_select(proc[w].args) :
            proc' = [proc EXCEPT ![w].pc = "write", ![w].existing = {r.id}]
    /\ UNCHANGED <<tables, nextId, now, last>>

\* The UPDATE ... WHERE id = ? of the row read before, or the INSERT; an
\* INSERT that breaks the uniqueness of the key raises sqlite3.IntegrityError,
\* which save_position does not catch.
PosRaceWrite(w) ==
    /\ proc # <<>>
    /\ proc[w].pc = "write"
    /\ LET a == proc[w].args
           row == save_position_insert(a, nextId.positions)
       IN  IF proc[w].existing # {}
           THEN /\ positions' = {IF r.id \in proc[w].existing
                                   THEN save_position_update(r, a)
                                   ELSE r : r \in positions}
                /\ proc' = [proc EXCEPT ![w].pc = "done",
                              ![w].ret = CHOOSE id \in proc[w].existing : TRUE]
                /\ UNCHANGED nextId
           ELSE IF PositionsUnique(positions \cup {row})
           THEN /\ positions' = positions \cup {row}
                /\ nextId' = [nextId EXCEPT !.positions = @ + 1]
                /\ proc' = [proc EXCEPT ![w].pc = "done", ![w].ret = row.id]
           ELSE /\ proc' = [proc EXCEPT ![w].pc = "raised"]
                /\ UNCHANGED <<positions, nextId>>
    /\ UNCHANGED <<projects, keywords, sessions, competitors, domains, snapshots,
                   now, last>>

NextPosRace ==
    \/ PosRaceStart
    \/ \E w \in Writers : PosRaceSelect(w)
    \/ \E w \in Writers : PosRaceWrite(w)

SpecPosRace == Init /\ [][NextPosRace]_vars

get_or_create_project_always_inserts(name, domain) ==
    <<nextId.projects,
      projects \cup {[id |-> nextId.projects, name |-> name, domain |-> domain]},
      nextId.projects + 1>>

\* get_or_create_project: the id of the project of the domain, the projects
\* table and its id counter after the call, as <<id, rows, counter>>.
get_or_create_project(name, domain) ==
    IF \E r \in projects : r.domain = domain
    THEN LET row == CHOOSE r \in projects : r.domain = domain
         IN <<row.id, (projects \ {row}) \cup {[row EXCEPT !.name = name]},
              nextId.projects>>
    ELSE <<nextId.projects,
           projects \cup {[id |-> nextId.projects, name |-> name, domain |-> domain]},
           nextId.projects + 1>>

\* The names and domains callers pass; "" is the empty domain.
ProjectNames == {"Site", "Shop"}
ProjectDomains == {"site.ru", "other.ru", ""}

GetOrCreateProject ==
    /\ \E name \in ProjectNames, domain \in ProjectDomains :
        LET gp == get_or_create_project(name, domain) IN
            /\ projects' = gp[2]
            /\ nextId' = [nextId EXCEPT !.projects = gp[3]]
            /\ last' = [op |-> "get_or_create_project",
                        args |-> [name |-> name, domain |-> domain],
                        found |-> {r.id : r \in {x \in projects : x.domain = domain}},
                        ret |-> gp[1]]
    /\ UNCHANGED <<keywords, sessions, positions, competitors, domains, snapshots,
                   now, proc>>

NextProject == GetOrCreateProject

SpecProject == Init /\ [][NextProject]_vars

\* C22: after any sequence of get_or_create_project calls there is at most
\* one project row per domain, and every call with the same domain returns the
\* same id: a stored row keeps its id and domain, and each call returns the id
\* of the one row of its domain.
C22_OneProjectPerDomain ==
    [][/\ \A r \in projects :
             \E r2 \in projects' : r2.id = r.id /\ r2.domain = r.domain
       /\ \A r1, r2 \in projects' : r1.domain = r2.domain => r1 = r2
       /\ last'.op = "get_or_create_project" =>
             \E r \in projects' :
                 r.domain = last'.args.domain /\ r.id = last'.ret]_vars

\* A call found the project of its domain and renamed it, another project
\* being stored.
C22_Witness ==
    /\ last.op = "get_or_create_project"
    /\ last.found = {last.ret}
    /\ Cardinality(projects) = 2
    /\ \E r \in projects :
          r.id = last.ret /\ r.name = last.args.name /\ r.name = "Shop" /\ r.id = 1

\* C23: get_or_create_project with an empty domain is rejected and writes
\* nothing: no project row with an empty domain is ever stored.
C23_EmptyDomainRejected ==
    \A r \in projects : r.domain # ""

\* get_or_create_keyword over a keywords table kws with id counter next:
\* <<id, rows, counter>>.
get_or_create_keyword(kws, next, project_id, keyword) ==
    IF \E r \in kws : r.project_id = project_id /\ r.keyword = keyword
    THEN LET row == CHOOSE r \in kws : r.project_id = project_id /\ r.keyword = keyword
         IN <<row.id, (kws \ {row}) \cup {[row EXCEPT !.is_active = TRUE]}, next>>
    ELSE <<next,
           kws \cup {[id |-> next, project_id |-> project_id, keyword |-> keyword,
                      is_active |-> TRUE]},
           next + 1>>

\* --------------------------------------------------------------- ingestion
\* config/projects.yaml: the domains _find_project_by_domain finds.
ConfigDomains == {"site.ru"}
BatchDomains == {"site.ru", "other.ru"}
KeywordLists == {<<"k1">>, <<"k1", "k2">>}

\* Mutant: the lookup does not check the project.
get_session_info_any_project(session_id, project_id) ==
    {r \in sessions : r.session_id = session_id}

\* _get_session_info: SELECT * FROM monitoring_sessions WHERE session_id = ?
\* AND project_id = ?
get_session_info(session_id, project_id) ==
    {r \in sessions : r.session_id = session_id /\ r.project_id = project_id}

\* What happens to one keyword of a batch: whether a fresh cache entry exists,
\* what the position source returns, and which store call, if any, raises.
Outcome(cached, position, comps, fail) ==
    [cached |-> cached, position |-> position, competitors |-> comps, fail |-> fail]

KeywordOutcomes ==
    {Outcome(FALSE, 5, <<>>, "none"), Outcome(FALSE, 5, <<A1>>, "none"), Outcome(TRUE, 5, <<>>, "none"),
     Outcome(FALSE, 5, <<A1>>, "get_or_create_keyword"),
     Outcome(FALSE, 5, <<A1>>, "save_position"),
     Outcome(FALSE, 5, <<A1>>, "save_competitors")}

\* check_positions up to the loop: project lookup, session validation and
\* the batch timestamp taken from the session's start_time.
BatchStart ==
    /\ proc = <<>>
    /\ nextId.batches <= MaxBatches
    /\ \E domain \in BatchDomains, kws \in KeywordLists,
          sid \in {NULL} \cup SessionIds :
        IF domain \notin ConfigDomains
        THEN /\ last' = [op |-> "check_positions", domain |-> domain,
                         keywords |-> kws, ret |-> <<>>, outcomes |-> <<>>]
             /\ nextId' = [nextId EXCEPT !.batches = @ + 1]
             /\ UNCHANGED <<tables, now, proc>>
        ELSE LET gp == get_or_create_project("Site", domain)
                 project_id == gp[1]
                 info == IF sid = NULL THEN {} ELSE get_session_info(sid, project_id)
                 session_id == IF info = {} THEN NULL ELSE sid
                 start == IF info = {} THEN NULL
                          ELSE (CHOOSE r \in info : TRUE).start_time
             IN /\ projects' = gp[2]
                /\ nextId' = [nextId EXCEPT !.batches = @ + 1, !.projects = gp[3]]
                /\ proc' = [pc |-> "loop", domain |-> domain, keywords |-> kws,
                            i |-> 1, project_id |-> project_id,
                            requested |-> sid, session_id |-> session_id,
                            check_date |-> IF start = NULL THEN NULL ELSE DateOf(start),
                            check_time |-> IF start = NULL THEN NULL ELSE TimeOf(start),
                            results |-> <<>>, outcomes |-> <<>>,
                            all_competitors |-> <<>>, keyword_id |-> NULL]
                /\ last' = [op |-> "check_positions: running"]
                /\ UNCHANGED <<keywords, sessions, positions, competitors, domains,
                               snapshots, now>>

\* competitors_limit (default of check_positions) and the cut of the snapshot.
CompetitorsLimit == 20
Top10Limit == 10

Take(seq, n) == SubSeq(seq, 1, IF Len(seq) < n THEN Len(seq) ELSE n)

\* sorted(all_competitors, key=lambda x: x.get('position', 101)): stable.
RECURSIVE insert_sorted(_, _)
insert_sorted(sorted, c) ==
    IF sorted = <<>> THEN <<c>>
    ELSE IF c.position < Head(sorted).position THEN <<c>> \o sorted
    ELSE <<Head(sorted)>> \o insert_sorted(Tail(sorted), c)

RECURSIVE sorted_by_position(_)
sorted_by_position(comps) ==
    IF comps = <<>> THEN <<>>
    ELSE insert_sorted(sorted_by_position(SubSeq(comps, 1, Len(comps) - 1)),
                       comps[Len(comps)])

\* The dicts of the position source, keys in the order the source writes them.
as_top_10(comps) == [i \in DOMAIN comps |-> Item(ToString(comps[i].position), comps[i].domain)]

\* The record appended to results for a keyword.
ResultRecord(keyword, position, error, session_id) ==
    [keyword |-> keyword, position |-> position, error |-> error,
     session_id |-> session_id]

\* Mutant: the except branch leaves the loop instead of continuing.
after_error_break(i, n) == n + 1

\* except Exception: results.append({... "error": str(e) ...}); continue
after_error(i, n) == i + 1

\* One iteration of the loop of check_positions, the keyword's outcome drawn
\* from outcomes.
check_keyword(outcomes) ==
    /\ proc # <<>>
    /\ proc.pc = "loop"
    /\ proc.i <= Len(proc.keywords)
    /\ \E o \in outcomes :
        LET keyword == proc.keywords[proc.i]
            check_date == IF proc.session_id = NULL THEN DateOf(now) ELSE proc.check_date
            check_time == IF proc.session_id = NULL THEN TimeOf(now) ELSE proc.check_time
            gk == get_or_create_keyword(keywords, nextId.keywords, proc.project_id, keyword)
            kw_ok == o.fail # "get_or_create_keyword"
            a == PositionArgs(proc.project_id, gk[1], check_date, check_time,
                              o.position, "", 100, "yandex", proc.session_id)
            pos_ok == kw_ok /\ o.fail # "save_position"
            comps == Take(o.competitors, CompetitorsLimit)
            with_comps == pos_ok /\ ~o.cached /\ comps # <<>>
            comps_ok == with_comps /\ o.fail # "save_competitors"
            st == IF comps_ok
                  THEN save_competitors_result(CompetitorArgs(proc.project_id, gk[1],
                           check_date, check_time, comps, proc.session_id))
                  ELSE Connection
            raised == ~pos_ok \/ (with_comps /\ ~comps_ok)
            record == IF raised THEN ResultRecord(keyword, NULL, TRUE, proc.session_id)
                      ELSE IF o.cached THEN ResultRecord(keyword, o.position, FALSE, NULL)
                      ELSE ResultRecord(keyword, o.position, FALSE, proc.session_id)
        IN  \E res \in IF pos_ok THEN save_position_results(a)
                       ELSE {<<positions, NULL>>} :
            /\ keywords' = IF kw_ok THEN gk[2] ELSE keywords
            /\ positions' = res[1]
            /\ competitors' = st.competitors
            /\ domains' = st.domains
            /\ nextId' = [nextId EXCEPT
                            !.keywords = IF kw_ok THEN gk[3] ELSE @,
                            !.positions = IF pos_ok /\ save_position_select(a) = {}
                                          THEN @ + 1 ELSE @,
                            !.competitors = st.nextCompetitor,
                            !.domains = st.nextDomain]
            /\ proc' = [proc EXCEPT
                          !.i = IF raised THEN after_error(@, Len(proc.keywords)) ELSE @ + 1,
                          !.check_date = check_date,
                          !.check_time = check_time,
                          !.keyword_id = IF kw_ok THEN gk[1] ELSE @,
                          !.results = Append(@, record),
                          !.outcomes = Append(@, o),
                          !.all_competitors = IF comps_ok THEN @ \o comps ELSE @]
    /\ UNCHANGED <<projects, sessions, snapshots, now, last>>

BatchKeyword == check_keyword(KeywordOutcomes)

\* check_positions after the loop: the snapshot of the merged competitor
\* lists under the last keyword id, then return results.
BatchFinish ==
    /\ proc # <<>>
    /\ proc.pc = "loop"
    /\ proc.i > Len(proc.keywords)
    /\ IF proc.all_competitors # <<>> /\ proc.keyword_id # NULL
       THEN \E ret \in BOOLEAN :
              save_snapshot_if_changed(
                  SnapshotArgs(proc.project_id, proc.keyword_id, proc.check_date,
                      as_top_10(Take(sorted_by_position(proc.all_competitors), Top10Limit))),
                  ret)
       ELSE UNCHANGED <<snapshots, nextId>>
    /\ last' = [op |-> "check_positions", domain |-> proc.domain,
                keywords |-> proc.keywords, ret |-> proc.results,
                outcomes |-> proc.outcomes]
    /\ proc' = <<>>
    /\ UNCHANGED <<projects, keywords, sessions, positions, competitors, domains, now>>

\* A save_position call from outside the batch at the current time, for the
\* first keyword id of project 1, with or without the tag of one of its sessions.
AdHocKeywordIds == {1}

AdHocSavePosition ==
    /\ \E k \in AdHocKeywordIds,
          sid \in {NULL} \cup {r.session_id : r \in {x \in sessions : x.project_id = 1}} :
          LET a == PositionArgs(1, k, DateOf(now), TimeOf(now), 101, "", 100,
                                "yandex", sid)
          IN \E res \in save_position_results(a) :
                /\ positions' = res[1]
                /\ nextId' = [nextId EXCEPT !.positions =
                                 IF save_position_select(a) = {} THEN @ + 1 ELSE @]
    /\ UNCHANGED <<projects, keywords, sessions, competitors, domains, snapshots,
                   now, last, proc>>

\* The ingestion engine: sessions are created and batches run keyword by
\* keyword while time passes.
NextIngest ==
    \/ Tick
    \/ CreateSession
    \/ BatchStart
    \/ BatchKeyword
    \/ BatchFinish

SpecIngest == Init /\ [][NextIngest]_vars

\* The ingestion engine with ad-hoc checks saved in between.
NextBatch == NextIngest \/ AdHocSavePosition

SpecBatch == Init /\ [][NextBatch]_vars

\* Time passing before the first position is stored.
TickBeforeChecks == positions = {} /\ proc = <<>> /\ Tick

\* Batches and outside save_position calls some time after the sessions were
\* created, with time standing still once the checks have begun.
NextFallback ==
    \/ TickBeforeChecks
    \/ CreateSession
    \/ BatchStart
    \/ BatchKeyword
    \/ BatchFinish
    \/ AdHocSavePosition

SpecFallback == Init /\ [][NextFallback]_vars

\* The observations (position and competitor rows) tagged with a session.
SessionObservations(sid) ==
    {<<r.check_date, r.check_time>> : r \in {x \in positions : x.session_id = sid}}
    \cup {<<r.check_date, r.check_time>> : r \in {x \in competitors : x.session_id = sid}}

\* C2: any two position or competitor observations with the same non-null
\* session_id have equal (check_date, check_time).
C2_SessionTimestampInvariant ==
    \A sid \in 1 .. MaxSessions : Cardinality(SessionObservations(sid)) <= 1

\* C9: the list check_positions returns for a configured domain has one
\* record per input keyword in input order; every keyword was attempted, and
\* the record of a keyword whose processing raised carries an error and a
\* null position.
C9_PartialFailureIsolation ==
    (last.op = "check_positions" /\ last.domain \in ConfigDomains) =>
        /\ Len(last.ret) = Len(last.keywords)
        /\ Len(last.outcomes) = Len(last.keywords)
        /\ \A i \in 1 .. Len(last.ret) :
              /\ last.ret[i].keyword = last.keywords[i]
              /\ last.outcomes[i].fail # "none" =>
                    last.ret[i].error /\ last.ret[i].position = NULL
              /\ last.outcomes[i].fail = "none" =>
                    ~last.ret[i].error /\ last.ret[i].position # NULL

\* A batch of two keywords whose first keyword raised and whose second one
\* was checked and recorded.
C9_Witness ==
    /\ last.op = "check_positions"
    /\ last.domain \in ConfigDomains
    /\ last.keywords = <<"k1", "k2">>
    /\ last.outcomes[1].fail = "save_position"
    /\ last.outcomes[2].fail = "none"
    /\ last.ret[1].error
    /\ last.ret[2].position = 5
    /\ \E r \in positions : r.position = 5

\* C11: after a batch, every keyword that was checked with competitor
\* tracking on and for which competitors were returned has a snapshot row
\* under its own keyword id.
C11_SnapshotPerKeyword ==
    (last.op = "check_positions" /\ last.domain \in ConfigDomains) =>
        \A i \in 1 .. Len(last.outcomes) :
            (/\ last.outcomes[i].fail = "none"
             /\ ~last.outcomes[i].cached
             /\ last.outcomes[i].competitors # <<>>) =>
                \E k \in keywords :
                    /\ k.keyword = last.keywords[i]
                    /\ \E sn \in snapshots :
                          sn.project_id = k.project_id /\ sn.keyword_id = k.id

\* The batch in progress was given a session_id that is no session of its
\* project (sessions are never removed, so none was at its start either).
InvalidSession(p) ==
    /\ p # <<>>
    /\ p.requested # NULL
    /\ ~\E r \in sessions : r.session_id = p.requested /\ r.project_id = p.project_id

\* C13 as stated: in a batch given a session_id that does not exist or belongs
\* to another project, every iteration leaves the position and competitor rows
\* it writes, and the record it appends, with a null session_id.
C13_FallbackWritesNoSession ==
    [][(InvalidSession(proc) /\ proc' # <<>> /\ proc'.i # proc.i) =>
          /\ \A r \in positions' \ positions : r.session_id = NULL
          /\ \A r \in competitors' \ competitors : r.session_id = NULL
          /\ proc'.results[Len(proc'.results)].session_id = NULL]_vars

\* C13, amended: such a batch stamps every row it writes with the time of the
\* call; a row it inserts has a null session_id, a row it updates keeps the
\* session_id it had, and the record of a keyword that was not served from the
\* cache has a null session_id.
C13_FallbackIsSessionless ==
    [][(InvalidSession(proc) /\ proc' # <<>> /\ proc'.i # proc.i) =>
          /\ \A r \in positions' \ positions :
                /\ r.check_date = DateOf(now) /\ r.check_time = TimeOf(now)
                /\ IF \E old \in positions : old.id = r.id
                   THEN \E old \in positions :
                          old.id = r.id /\ old.session_id = r.session_id
                   ELSE r.session_id = NULL
          /\ \A r \in competitors' \ competitors :
                /\ r.check_date = DateOf(now) /\ r.check_time = TimeOf(now)
                /\ r.session_id = NULL
          /\ ~proc'.outcomes[Len(proc'.outcomes)].cached =>
                proc'.results[Len(proc'.results)].session_id = NULL]_vars

\* A batch was given the session of another project, created earlier, and
\* has stored its first keyword's position untagged at the time of the call.
C13_Witness ==
    /\ InvalidSession(proc)
    /\ \E r \in sessions : r.session_id = proc.requested /\ r.start_time # now
    /\ Len(proc.results) >= 1
    /\ ~proc.results[1].error
    /\ \E r \in positions :
          /\ r.keyword_id = proc.keyword_id
          /\ r.session_id = NULL
          /\ r.check_date = DateOf(now) /\ r.check_time = TimeOf(now)

\* ------------------------------------------ check_positions_with_session
\* check_positions_with_session, step by step: the project lookup, the
\* creation of the session, check_positions up to its loop, the loop (the
\* iterations are those of check_positions), the snapshot after the loop, and
\* the completion or failure of the session.  proc.created is the id of the
\* session the call created, proc.raised whether check_positions raised.
WithSessionBegin ==
    /\ IF proc = <<>> THEN TRUE ELSE proc.pc = "done"
    /\ nextId.batches <= MaxBatches
    /\ nextId.sessions <= MaxSessions
    /\ \E domain \in BatchDomains, kws \in KeywordLists :
        IF domain \notin ConfigDomains
        THEN /\ proc' = [pc |-> "done", domain |-> domain, keywords |-> kws,
                         created |-> NULL, raised |-> FALSE, results |-> <<>>]
             /\ nextId' = [nextId EXCEPT !.batches = @ + 1]
             /\ UNCHANGED projects
        ELSE LET gp == get_or_create_project("Site", domain) IN
             /\ projects' = gp[2]
             /\ nextId' = [nextId EXCEPT !.batches = @ + 1, !.projects = gp[3]]
             /\ proc' = [pc |-> "create_session", domain |-> domain, keywords |-> kws,
                         project_id |-> gp[1]]
    /\ UNCHANGED <<keywords, sessions, positions, competitors, domains, snapshots,
                   now, last>>

WithSessionCreate ==
    /\ proc # <<>>
    /\ proc.pc = "create_session"
    /\ create_monitoring_session(proc.project_id, "run")
    /\ proc' = [pc |-> "check_positions", domain |-> proc.domain,
                keywords |-> proc.keywords, project_id |-> proc.project_id,
                created |-> nextId.sessions]
    /\ UNCHANGED <<projects, keywords, positions, competitors, domains, snapshots, now>>

\* check_positions(domain, keywords, session_id=created) up to its loop; a
\* store call ahead of the loop may raise.
WithSessionEnter ==
    /\ proc # <<>>
    /\ proc.pc = "check_positions"
    /\ \E raises \in BOOLEAN :
        IF raises
        THEN proc' = [pc |-> "raised", domain |-> proc.domain,
                      keywords |-> proc.keywords, created |-> proc.created,
                      results |-> <<>>]
        ELSE LET info == get_session_info(proc.created, proc.project_id)
                 session_id == IF info = {} THEN NULL ELSE proc.created
                 start == IF info = {} THEN NULL
                          ELSE (CHOOSE r \in info : TRUE).start_time
             IN proc' = [pc |-> "loop", domain |-> proc.domain,
                         keywords |-> proc.keywords, i |-> 1,
                         project_id |-> proc.project_id, created |-> proc.created,
                         requested |-> proc.created, session_id |-> session_id,
                         check_date |-> IF start = NULL THEN NULL ELSE DateOf(start),
                         check_time |-> IF start = NULL THEN NULL ELSE TimeOf(start),
                         results |-> <<>>, outcomes |-> <<>>,
                         all_competitors |-> <<>>, keyword_id |-> NULL]
    /\ UNCHANGED <<tables, nextId, now, last>>

\* check_positions after its loop: the snapshot is saved, or saving it raises.
WithSessionSnapshot ==
    /\ proc # <<>>
    /\ proc.pc = "loop"
    /\ proc.i > Len(proc.keywords)
    /\ IF proc.all_competitors # <<>> /\ proc.keyword_id # NULL
       THEN \/ /\ \E ret \in BOOLEAN :
                    save_snapshot_if_changed(
                        SnapshotArgs(proc.project_id, proc.keyword_id, proc.check_date,
                            as_top_10(Take(sorted_by_position(proc.all_competitors),
                                           Top10Limit))),
                        ret)
               /\ proc' = [proc EXCEPT !.pc = "returned"]
            \/ /\ UNCHANGED <<snapshots, nextId>>
               /\ proc' = [proc EXCEPT !.pc = "raised"]
       ELSE /\ UNCHANGED <<snapshots, nextId>>
            /\ proc' = [proc EXCEPT !.pc = "returned"]
    /\ UNCHANGED <<projects, keywords, sessions, positions, competitors, domains,
                   now, last>>

\* len([r for r in results if r.get('position') is not None])
successful_checks(results) ==
    Len(SelectSeq(results, LAMBDA r : r.position # NULL))

\* The end of the try block: complete_monitoring_session and return, or the
\* except branch with fail_monitoring_session.
WithSessionFinish ==
    /\ proc # <<>>
    /\ \/ /\ proc.pc = "returned"
          /\ complete_monitoring_session(proc.created, Len(proc.keywords),
                                         successful_checks(proc.results))
          /\ proc' = [pc |-> "done", domain |-> proc.domain, keywords |-> proc.keywords,
                      created |-> proc.created, raised |-> FALSE,
                      results |-> proc.results]
       \/ /\ proc.pc = "raised"
          /\ fail_monitoring_session(proc.created, "boom")
          /\ proc' = [pc |-> "done", domain |-> proc.domain, keywords |-> proc.keywords,
                      created |-> proc.created, raised |-> TRUE, results |-> <<>>]
    /\ UNCHANGED <<projects, keywords, positions, competitors, domains, snapshots,
                   nextId, now>>

NextWithSession ==
    \/ Tick
    \/ WithSessionBegin
    \/ WithSessionCreate
    \/ WithSessionEnter
    \/ BatchKeyword
    \/ WithSessionSnapshot
    \/ WithSessionFinish

SpecWithSession == Init /\ [][NextWithSession]_vars

\* C28: when check_positions_with_session has returned, the session it
\* created is 'completed' with total_keywords the number of input keywords and
\* completed_keywords at most that if check_positions returned, and 'failed'
\* if check_positions raised; a session is 'running' only while the call that
\* created it is under way.
C28_SessionReachesTerminalStatus ==
    /\ (proc # <<>> /\ proc.pc = "done" /\ proc.created # NULL) =>
          \E s \in sessions :
              /\ s.session_id = proc.created
              /\ \A o \in sessions : o.session_id = proc.created => o = s
              /\ IF proc.raised
                 THEN s.status = "failed"
                 ELSE /\ s.status = "completed"
                      /\ s.total_keywords = Len(proc.keywords)
                      /\ s.completed_keywords = successful_checks(proc.results)
                      /\ s.completed_keywords <= s.total_keywords
    /\ \A s \in sessions :
          s.status = "running" =>
              /\ proc # <<>>
              /\ proc.pc \in {"check_positions", "loop", "returned", "raised"}
              /\ proc.created = s.session_id

\* A call returned after both of its keywords had failed: the session is
\* completed with 0 of 2 keywords.
C28_Witness ==
    /\ proc # <<>>
    /\ proc.pc = "done"
    /\ ~proc.raised
    /\ Len(proc.keywords) = 2
    /\ Len(proc.results) = 2
    /\ \A i \in DOMAIN proc.results : proc.results[i].error
    /\ \E s \in sessions :
          /\ s.session_id = proc.created
          /\ s.status = "completed"
          /\ s.total_keywords = 2
          /\ s.completed_keywords = 0

\* A call whose check_positions raised while saving the snapshot returned
\* with its session failed.
C28_WitnessRaised ==
    /\ proc # <<>>
    /\ proc.pc = "done"
    /\ proc.raised
    /\ competitors # {}
    /\ \E s \in sessions : s.session_id = proc.created /\ s.status = "failed"

\* ---------------------------------------------------------- position source
\* What RealPositionParser.get_yandex_position does for one keyword: the
\* domain is found at a position, the upstream request fails (get_search_results
\* returns [] and the position is reported as 101), the parser hands back an
\* error result (position None with an error string), or the call raises.
NotFoundPosition == 101

ParserResults ==
    {[kind |-> "found", position |-> 5, error |-> ""],
     [kind |-> "upstream_failed", position |-> NotFoundPosition, error |-> ""],
     [kind |-> "error_result", position |-> NULL, error |-> "boom"],
     [kind |-> "raises", position |-> NULL, error |-> "boom"]}

\* _get_stub_position: random.randint(10, 30) for a keyword without the
\* special words; the ends of the range.
StubPositions == {10, 30}

\* _get_real_yandex_position: the position_data dicts it can return for a
\* parser result; an exception of the parser is answered by the stub.
get_real_yandex_position(parsed) ==
    IF parsed.kind = "raises"
    THEN {[position |-> q, error |-> "", source |-> parsed.kind] : q \in StubPositions}
    ELSE {[position |-> parsed.position, error |-> parsed.error, source |-> parsed.kind]}

\* The outcomes of a keyword checked without cache, the store accepting
\* every call.
SourceOutcomes ==
    {[cached |-> FALSE, position |-> d.position, competitors |-> <<>>,
      fail |-> "none", error |-> d.error, source |-> d.source] :
        d \in UNION {get_real_yandex_position(parsed) : parsed \in ParserResults}}

CheckKeywordFromSource == check_keyword(SourceOutcomes)

NextSource ==
    \/ Tick
    \/ BatchStart
    \/ CheckKeywordFromSource
    \/ BatchFinish

SpecSource == Init /\ [][NextSource]_vars

\* The source reported an error for the keyword of this outcome.
SourceFailed(o) == o.source \in {"upstream_failed", "error_result", "raises"}

\* C21: when the position source reports an error for a keyword, the batch
\* does not raise, a position observation with a null position is stored for
\* that keyword, and the record returned for it has a null position and
\* carries the error string.
C21_SourceErrorRecorded ==
    (last.op = "check_positions" /\ last.domain \in ConfigDomains) =>
        \A i \in DOMAIN last.outcomes :
            SourceFailed(last.outcomes[i]) =>
                /\ last.ret[i].keyword = last.keywords[i]
                /\ last.ret[i].position = NULL
                /\ last.ret[i].error
                /\ \E k \in keywords, r \in positions :
                      /\ k.keyword = last.keywords[i]
                      /\ r.keyword_id = k.id
                      /\ r.position = NULL

\* ---------------------------------------------------------- threat detector
\* self.thresholds of ThreatDetector and the literals of its analyses.
CriticalDrop == 10
SignificantDrop == 3
DaysToAnalyze == 7
MinCheckFrequency == 2
DisplacementDays == 30
TopLimit == 20
CriticalPosition == 50
TrendChecks == 3

\* get_position_history: the position rows of the domain's project not older
\* than the given number of days, joined with their keywords.
get_position_history(domain, days) ==
    {[check_date |-> p.check_date, check_time |-> p.check_time,
      keyword |-> k.keyword, position |-> p.position,
      search_engine |-> p.search_engine] :
        <<p, k>> \in {<<p, k>> \in positions \X keywords :
                        /\ p.keyword_id = k.id
                        /\ \E pr \in projects : pr.id = p.project_id /\ pr.domain = domain
                        /\ p.check_date >= DateOf(now) - days}}

\* The sort key (check_date, check_time) of the analyses.
Before(a, b) ==
    \/ a.check_date < b.check_date
    \/ a.check_date = b.check_date /\ a.check_time < b.check_time

\* sorted(records, key=lambda x: (x['check_date'], x['check_time']))
RECURSIVE sorted_records(_)
sorted_records(records) ==
    IF records = {} THEN <<>>
    ELSE LET first == CHOOSE r \in records : \A o \in records : ~Before(o, r)
         IN <<first>> \o sorted_records(records \ {first})

\* The keywords of the store in alphabetical order (ORDER BY ... k.keyword).
KeywordNames == <<"k1", "k2", "k3", "k4", "k5">>
KeywordRank(keyword) == CHOOSE i \in DOMAIN KeywordNames : KeywordNames[i] = keyword

\* keyword_data[keyword]: the records of a keyword.
keyword_data(history, keyword) == {r \in history : r.keyword = keyword}

\* The newest record of a keyword: where the keyword first appears in the
\* history, which is ordered by check_date DESC, check_time DESC, keyword.
Newest(history, keyword) ==
    CHOOSE r \in keyword_data(history, keyword) :
        \A o \in keyword_data(history, keyword) : ~Before(r, o)

AppearsBefore(history, k1, k2) ==
    LET n1 == Newest(history, k1)
        n2 == Newest(history, k2)
    IN \/ Before(n2, n1)
       \/ ~Before(n1, n2) /\ KeywordRank(k1) < KeywordRank(k2)

\* keyword_data.items(): the keywords in the order of their first appearance.
RECURSIVE keyword_items(_, _)
keyword_items(history, names) ==
    IF names = {} THEN <<>>
    ELSE LET first == CHOOSE k \in names :
                          \A o \in names \ {k} : AppearsBefore(history, k, o)
         IN <<first>> \o keyword_items(history, names \ {first})

KeywordsOf(history) == {r.keyword : r \in history}

\* Mutant: a drop counts as critical only above the threshold.
threat_level_strict(change) ==
    IF change > CriticalDrop THEN "critical"
    ELSE IF change >= SignificantDrop THEN "warning"
    ELSE "none"

\* analyze_position_changes, the threat level of a change ("none": skipped).
threat_level(change) ==
    IF change >= CriticalDrop THEN "critical"
    ELSE IF change >= SignificantDrop THEN "warning"
    ELSE "none"

\* Mutant: the latest observation is compared with the oldest of the window.
position_drop_from_oldest(keyword, records) ==
    LET sorted == sorted_records(records) IN
    IF Len(sorted) < MinCheckFrequency THEN <<>>
    ELSE LET latest == sorted[Len(sorted)]
             previous == sorted[1]
         IN IF latest.position = NULL \/ previous.position = NULL THEN <<>>
            ELSE LET change == latest.position - previous.position IN
                 IF threat_level(change) = "none" THEN <<>>
                 ELSE <<[type |-> "position_drop", keyword |-> keyword,
                         previous_position |-> previous.position,
                         current_position |-> latest.position,
                         change |-> change,
                         threat_level |-> threat_level(change)]>>

\* analyze_position_changes, the body of the loop for one keyword: the
\* threats it appends.
position_drop(keyword, records) ==
    LET sorted == sorted_records(records) IN
    IF Len(sorted) < MinCheckFrequency THEN <<>>
    ELSE LET recent_data == SubSeq(sorted, Len(sorted) - MinCheckFrequency + 1,
                                   Len(sorted))
             latest == recent_data[Len(recent_data)]
             previous == recent_data[Len(recent_data) - 1]
         IN IF latest.position = NULL \/ previous.position = NULL THEN <<>>
            ELSE LET change == latest.position - previous.position IN
                 IF threat_level(change) = "none" THEN <<>>
                 ELSE <<[type |-> "position_drop", keyword |-> keyword,
                         previous_position |-> previous.position,
                         current_position |-> latest.position,
                         change |-> change,
                         threat_level |-> threat_level(change)]>>

\* Mutant: displaced only when the oldest position was strictly inside the top.
was_displaced_strict(oldest_pos, latest_pos) == oldest_pos < TopLimit /\ latest_pos > TopLimit

\* detect_displacements: if oldest_pos <= 20 and latest_pos > 20
was_displaced(oldest_pos, latest_pos) == oldest_pos <= TopLimit /\ latest_pos > TopLimit

\* detect_displacements, the body of the loop for one keyword.
displacement(keyword, records) ==
    IF Cardinality(records) < 2 THEN <<>>
    ELSE LET sorted == sorted_records(records)
             oldest == sorted[1]
             latest == sorted[Len(sorted)]
         IN IF oldest.position = NULL \/ latest.position = NULL THEN <<>>
            ELSE IF was_displaced(oldest.position, latest.position)
            THEN <<[type |-> "displacement", keyword |-> keyword,
                    old_position |-> oldest.position,
                    new_position |-> latest.position,
                    dropped_from_top20 |-> TRUE,
                    positions_lost |-> latest.position - oldest.position,
                    threat_level |-> IF latest.position > CriticalPosition
                                     THEN "critical" ELSE "warning"]>>
            ELSE <<>>

\* Mutant: the trend is read off the three oldest records of the window.
keyword_trend_oldest_three(keyword, records) ==
    IF Cardinality(records) < TrendChecks THEN <<>>
    ELSE LET sorted == sorted_records(records)
             recent == SubSeq(sorted, 1, TrendChecks)
             trend_positions == SelectSeq([i \in DOMAIN recent |-> recent[i].position],
                                          LAMBDA p : p # NULL)
         IN IF Len(trend_positions) # TrendChecks THEN <<>>
            ELSE <<[keyword |-> keyword,
                    trend |-> IF trend_positions[1] > trend_positions[2]
                                 /\ trend_positions[2] > trend_positions[3]
                              THEN "improving"
                              ELSE IF trend_positions[1] < trend_positions[2]
                                      /\ trend_positions[2] < trend_positions[3]
                              THEN "declining"
                              ELSE "fluctuating",
                    current_position |-> trend_positions[3],
                    change_3_checks |-> trend_positions[3] - trend_positions[1]]>>

\* assess_overall_situation, the body of the loop for one keyword: the
\* trend entries it appends.
keyword_trend(keyword, records) ==
    IF Cardinality(records) < TrendChecks THEN <<>>
    ELSE LET sorted == sorted_records(records)
             recent == SubSeq(sorted, Len(sorted) - TrendChecks + 1, Len(sorted))
             trend_positions == SelectSeq([i \in DOMAIN recent |-> recent[i].position],
                                          LAMBDA p : p # NULL)
         IN IF Len(trend_positions) # TrendChecks THEN <<>>
            ELSE <<[keyword |-> keyword,
                    trend |-> IF trend_positions[1] > trend_positions[2]
                                 /\ trend_positions[2] > trend_positions[3]
                              THEN "improving"
                              ELSE IF trend_positions[1] < trend_positions[2]
                                      /\ trend_positions[2] < trend_positions[3]
                              THEN "declining"
                              ELSE "fluctuating",
                    current_position |-> trend_positions[3],
                    change_3_checks |-> trend_positions[3] - trend_positions[1]]>>

\* The body of the loop of the named analysis for one keyword.
loop_body(analysis, keyword, records) ==
    CASE analysis = "position_drop" -> position_drop(keyword, records)
      [] analysis = "displacement" -> displacement(keyword, records)
      [] analysis = "trend" -> keyword_trend(keyword, records)

\* The loop "for keyword, records in keyword_data.items()" runs inside one
\* try: when a keyword's analysis raises, no further keyword is analysed.
after_raise(items) == <<>>

\* The entries the loop appends, in iteration order.
RECURSIVE analyze_keywords(_, _, _, _)
analyze_keywords(items, history, failing, analysis) ==
    IF items = <<>> THEN <<>>
    ELSE IF Head(items) = failing
    THEN analyze_keywords(after_raise(items), history, failing, analysis)
    ELSE loop_body(analysis, Head(items), keyword_data(history, Head(items)))
         \o analyze_keywords(Tail(items), history, failing, analysis)

\* analyze_position_changes(domain); failing is the keyword whose analysis
\* raises ("none": no keyword).
analyze_position_changes(domain, failing) ==
    LET history == get_position_history(domain, DaysToAnalyze) IN
    analyze_keywords(keyword_items(history, KeywordsOf(history)), history, failing,
                     "position_drop")

\* detect_displacements(domain)
detect_displacements(domain, failing) ==
    LET history == get_position_history(domain, DisplacementDays) IN
    IF Cardinality(history) < 2 THEN <<>>
    ELSE analyze_keywords(keyword_items(history, KeywordsOf(history)), history,
                          failing, "displacement")

\* The thresholds of assess_overall_situation, 0.5 and 0.3, as fractions.
HalfRatio == <<1, 2>>
WarningRatio == <<3, 10>>

\* count / total > ratio
RatioAbove(count, total, ratio) == count * ratio[2] > ratio[1] * total

\* Mutant: the improvement test comes before the warning test.
overall_improvement_first(improving, declining, total) ==
    IF total = 0 THEN [overall_status |-> "stable", trend |-> "neutral"]
    ELSE IF RatioAbove(declining, total, HalfRatio)
    THEN [overall_status |-> "critical", trend |-> "negative"]
    ELSE IF RatioAbove(improving, total, HalfRatio)
    THEN [overall_status |-> "good", trend |-> "positive"]
    ELSE IF RatioAbove(declining, total, WarningRatio)
    THEN [overall_status |-> "warning", trend |-> "slightly_negative"]
    ELSE [overall_status |-> "stable", trend |-> "neutral"]

\* assess_overall_situation, the status for the counted trends.
overall(improving, declining, total) ==
    IF total = 0 THEN [overall_status |-> "stable", trend |-> "neutral"]
    ELSE IF RatioAbove(declining, total, HalfRatio)
    THEN [overall_status |-> "critical", trend |-> "negative"]
    ELSE IF RatioAbove(declining, total, WarningRatio)
    THEN [overall_status |-> "warning", trend |-> "slightly_negative"]
    ELSE IF RatioAbove(improving, total, HalfRatio)
    THEN [overall_status |-> "good", trend |-> "positive"]
    ELSE [overall_status |-> "stable", trend |-> "neutral"]

CountTrend(keyword_trends, trend) ==
    Len(SelectSeq(keyword_trends, LAMBDA t : t.trend = trend))

\* assess_overall_situation(domain): the assessment and the trends behind it.
\* An exception in the loop leaves the assessment at its defaults.
assess_overall_situation(domain, failing) ==
    LET history == get_position_history(domain, DaysToAnalyze)
        items == keyword_items(history, KeywordsOf(history))
        raised == \E i \in DOMAIN items : items[i] = failing
        keyword_trends == IF Cardinality(history) < TrendChecks \/ raised THEN <<>>
                          ELSE analyze_keywords(items, history, failing, "trend")
        improving == CountTrend(keyword_trends, "improving")
        declining == CountTrend(keyword_trends, "declining")
    IN [assessment |-> overall(improving, declining, Len(keyword_trends)),
        keyword_trends |-> keyword_trends]

\* generate_recommendations(threats): a recommendation is its kind and the
\* keywords it names.
Recommendation(kind, threats, limit) ==
    [kind |-> kind, keywords |-> [i \in DOMAIN Take(threats, limit) |-> threats[i].keyword]]

generate_recommendations(threats) ==
    LET position_drops == SelectSeq(threats, LAMBDA t : t.type = "position_drop")
        displacements == SelectSeq(threats, LAMBDA t : t.type = "displacement")
        critical_drops == SelectSeq(position_drops, LAMBDA t : t.threat_level = "critical")
        warning_drops == SelectSeq(position_drops, LAMBDA t : t.threat_level = "warning")
        top20_displacements == SelectSeq(displacements, LAMBDA t : t.dropped_from_top20)
        specific ==
            (IF critical_drops # <<>>
             THEN <<Recommendation("critical_drop", critical_drops, 3)>> ELSE <<>>)
            \o (IF warning_drops # <<>>
                THEN <<Recommendation("significant_drop", warning_drops, 5)>> ELSE <<>>)
            \o (IF top20_displacements # <<>>
                THEN <<Recommendation("displacement", top20_displacements, 3)>> ELSE <<>>)
    IN specific
       \o (IF threats # <<>> /\ specific = <<>>
           THEN <<[kind |-> "generic", keywords |-> <<>>]>> ELSE <<>>)
       \o (IF threats = <<>>
           THEN <<[kind |-> "continue_monitoring", keywords |-> <<>>]>> ELSE <<>>)

\* analyze_project(project_name, domain): the results dict.
analyze_project(project_name, domain) ==
    LET threats == analyze_position_changes(domain, "none")
                   \o detect_displacements(domain, "none")
        overall_assessment == assess_overall_situation(domain, "none").assessment
    IN [project_name |-> project_name, domain |-> domain, threats |-> threats,
        recommendations |-> IF threats # <<>> THEN generate_recommendations(threats)
                            ELSE <<>>,
        overall_status |-> overall_assessment.overall_status,
        trend |-> overall_assessment.trend]

\* A store with a history: the project of site.ru, its keywords, and for each
\* keyword the position rows of an observation function (from indices of a
\* slot list to positions).
Slot(date, time, engine) ==
    [check_date |-> date, check_time |-> time, search_engine |-> engine]

\* All observation functions over the slots: some slots observed, each with
\* one of the values.
Observations(slots, values) == UNION {[S -> values] : S \in SUBSET DOMAIN slots}

HistoryRows(keyword_id, slots, obs) ==
    {[id |-> (keyword_id - 1) * Len(slots) + i, project_id |-> 1,
      keyword_id |-> keyword_id, session_id |-> NULL,
      check_date |-> slots[i].check_date, check_time |-> slots[i].check_time,
      position |-> obs[i], url |-> "", total_results |-> 100,
      search_engine |-> slots[i].search_engine] : i \in DOMAIN obs}

\* The store holding the given position rows for the first n keywords.
InitHistory(n, rows) ==
    /\ projects = {[id |-> 1, name |-> "Site", domain |-> "site.ru"]}
    /\ keywords = {[id |-> i, project_id |-> 1, keyword |-> KeywordNames[i],
                    is_active |-> TRUE] : i \in 1 .. n}
    /\ sessions = {}
    /\ positions = rows
    /\ competitors = {}
    /\ domains = {}
    /\ snapshots = {}
    /\ nextId = [projects |-> 2, keywords |-> n + 1, sessions |-> 1,
                 positions |-> Cardinality(rows) + 1, competitors |-> 1,
                 domains |-> 1, snapshots |-> 1, batches |-> 1]
    /\ now = 0
    /\ last = NoCall
    /\ proc = <<>>

\* The keyword whose analysis raises, if any.
Failing == {"none", "k1", "k2"}

AnalyzePositionChanges ==
    /\ \E failing \in Failing :
          last' = [op |-> "analyze_position_changes", failing |-> failing,
                   ret |-> analyze_position_changes("site.ru", failing)]
    /\ UNCHANGED <<tables, nextId, now, proc>>

DetectDisplacements ==
    /\ \E failing \in Failing :
          last' = [op |-> "detect_displacements", failing |-> failing,
                   ret |-> detect_displacements("site.ru", failing)]
    /\ UNCHANGED <<tables, nextId, now, proc>>

AssessOverallSituation ==
    /\ \E failing \in Failing :
          last' = [op |-> "assess_overall_situation", failing |-> failing,
                   ret |-> assess_overall_situation("site.ru", failing)]
    /\ UNCHANGED <<tables, nextId, now, proc>>

AnalyzeProject ==
    /\ last' = [op |-> "analyze_project", ret |-> analyze_project("Site", "site.ru")]
    /\ UNCHANGED <<tables, nextId, now, proc>>

\* Histories for the position-drop analysis: the first keyword observed on
\* any of five occasions around the 7-day window, the second keyword absent or
\* with two observations.
DropSlots ==
    <<Slot(-8, 0, "yandex"), Slot(-7, 0, "yandex"), Slot(-1, 0, "yandex"),
      Slot(0, 0, "yandex"), Slot(0, 1, "google")>>
DropPositions == {NULL, 5, 7, 8, 15}
SecondKeywordDrops ==
    {<<>>, (3 :> 5 @@ 4 :> 7), (3 :> 5 @@ 4 :> 8), (3 :> 5 @@ 4 :> 15),
     (2 :> 5 @@ 3 :> 15 @@ 4 :> NULL)}

InitDrops ==
    \E o1 \in Observations(DropSlots, DropPositions), o2 \in SecondKeywordDrops :
        InitHistory(2, HistoryRows(1, DropSlots, o1) \cup HistoryRows(2, DropSlots, o2))

NextDrops == AnalyzePositionChanges

SpecDrops == InitDrops /\ [][NextDrops]_vars

\* The stored observations of a keyword not older than the given days.
WindowRows(keyword, days) ==
    {p \in positions :
        /\ p.check_date >= DateOf(now) - days
        /\ \E k \in keywords : k.id = p.keyword_id /\ k.keyword = keyword}

\* The observation of the rows after which none of them comes.
LastOf(rows) == CHOOSE r \in rows : \A o \in rows \ {r} : Before(o, r)

\* The level the two most recent observations of a keyword call for: "n/a"
\* with fewer than 2 observations or a missing position.
ExpectedDrop(keyword) ==
    LET rows == WindowRows(keyword, 7) IN
    IF Cardinality(rows) < 2 THEN "n/a"
    ELSE LET latest == LastOf(rows)
             previous == LastOf(rows \ {latest})
         IN IF latest.position = NULL \/ previous.position = NULL THEN "n/a"
            ELSE IF latest.position - previous.position >= 10 THEN "critical"
            ELSE IF latest.position - previous.position >= 3 THEN "warning"
            ELSE "none"

ThreatsOf(threats, keyword) == SelectSeq(threats, LAMBDA t : t.keyword = keyword)

\* The threats of a keyword are what its expected level calls for: none, or
\* exactly one of that level.
DropThreatsAsExpected(threats, keyword) ==
    LET level == ExpectedDrop(keyword)
        own == ThreatsOf(threats, keyword)
    IN /\ level = "none" => own = <<>>
       /\ level \in {"critical", "warning"} =>
             /\ Len(own) = 1
             /\ own[1].type = "position_drop"
             /\ own[1].threat_level = level

\* C16: position-drop detection emits, for each keyword with two observations
\* in the window, exactly one critical threat when latest - previous >= 10,
\* exactly one warning when 3 <= latest - previous < 10, and none below 3.
C16_DropClassification ==
    (last.op = "analyze_position_changes" /\ last.failing = "none") =>
        \A i \in DOMAIN KeywordNames : DropThreatsAsExpected(last.ret, KeywordNames[i])

\* One run saw a drop of exactly 10 (critical), and a change of 2 that is
\* no threat.
C16_Witness ==
    /\ last.op = "analyze_position_changes"
    /\ last.failing = "none"
    /\ Len(last.ret) = 1
    /\ last.ret[1].keyword = "k1"
    /\ last.ret[1].change = 10
    /\ last.ret[1].threat_level = "critical"
    /\ ExpectedDrop("k2") = "none"

\* All stored observations of a keyword, whatever their age.
KeywordRows(keyword) ==
    {p \in positions : \E k \in keywords : k.id = p.keyword_id /\ k.keyword = keyword}

\* C26: every position_drop threat carries the positions of the keyword's two
\* most recent observations in (date, time) order, both numeric, and a keyword
\* whose two most recent observations include a null position has no threat.
C26_DropFromTwoLatestNumeric ==
    last.op = "analyze_position_changes" =>
        /\ \A i \in DOMAIN last.ret :
              LET t == last.ret[i]
                  rows == KeywordRows(t.keyword)
              IN /\ t.type = "position_drop"
                 /\ Cardinality(rows) >= 2
                 /\ LET latest == LastOf(rows)
                        previous == LastOf(rows \ {latest})
                    IN /\ latest.position # NULL /\ previous.position # NULL
                       /\ t.current_position = latest.position
                       /\ t.previous_position = previous.position
                       /\ t.change = latest.position - previous.position
        /\ \A j \in DOMAIN KeywordNames :
              LET rows == KeywordRows(KeywordNames[j]) IN
              (/\ Cardinality(rows) >= 2
               /\ \/ LastOf(rows).position = NULL
                  \/ LastOf(rows \ {LastOf(rows)}).position = NULL)
                  => ThreatsOf(last.ret, KeywordNames[j]) = <<>>

\* A run reported the drop from 7 to 15 of a keyword that stood at 5 at the
\* start of the window, and nothing for a keyword that fell from 5 to 15 and
\* whose latest observation has no position.
C26_Witness ==
    /\ last.op = "analyze_position_changes"
    /\ last.failing = "none"
    /\ Len(last.ret) = 1
    /\ last.ret[1].keyword = "k1"
    /\ last.ret[1].previous_position = 7
    /\ last.ret[1].current_position = 15
    /\ \E r \in WindowRows("k1", DaysToAnalyze) :
          r.position = 5 /\ \A o \in WindowRows("k1", DaysToAnalyze) : ~Before(o, r)
    /\ Cardinality(KeywordRows("k2")) = 3
    /\ LastOf(KeywordRows("k2")).position = NULL

\* C19: when the analysis of one keyword raises, the threats of every other
\* keyword of the domain are still produced.
C19_FailureExcludesOneKeyword ==
    last.op = "analyze_position_changes" =>
        \A i \in DOMAIN KeywordNames :
            KeywordNames[i] # last.failing =>
                DropThreatsAsExpected(last.ret, KeywordNames[i])

\* Histories for the displacement analysis: the first keyword observed on any
\* of five occasions around the 30-day window, the second keyword absent or
\* with two observations.
DisplacementSlots ==
    <<Slot(-31, 0, "yandex"), Slot(-30, 0, "yandex"), Slot(-1, 0, "yandex"),
      Slot(0, 0, "yandex"), Slot(0, 1, "google")>>
DisplacementPositions == {NULL, 20, 21, 50, 51}
SecondKeywordDisplacements ==
    {<<>>, (3 :> 15 @@ 4 :> 55), (3 :> 55 @@ 4 :> 15)}

InitDisplacements ==
    \E o1 \in Observations(DisplacementSlots, DisplacementPositions),
       o2 \in SecondKeywordDisplacements :
        InitHistory(2, HistoryRows(1, DisplacementSlots, o1)
                       \cup HistoryRows(2, DisplacementSlots, o2))

NextDisplacements == DetectDisplacements

SpecDisplacements == InitDisplacements /\ [][NextDisplacements]_vars

\* The observation of the rows before which none of them comes.
FirstOf(rows) == CHOOSE r \in rows : \A o \in rows \ {r} : Before(r, o)

\* A keyword fell out of the top 20 between its oldest and its newest
\* observation of the last 30 days.
FellOutOfTop20(keyword) ==
    LET rows == WindowRows(keyword, 30) IN
    /\ Cardinality(rows) >= 2
    /\ FirstOf(rows).position # NULL
    /\ LastOf(rows).position # NULL
    /\ FirstOf(rows).position <= 20
    /\ LastOf(rows).position > 20

\* C17: displacement detection emits a threat for a keyword if and only if
\* the keyword has two observations in the 30-day window whose oldest and
\* newest positions are numeric with oldest <= 20 and newest > 20; the level is
\* critical exactly when newest > 50, else warning, and positions_lost is
\* newest - oldest.
C17_DisplacementLaw ==
    (last.op = "detect_displacements" /\ last.failing = "none") =>
        \A i \in DOMAIN KeywordNames :
            LET keyword == KeywordNames[i]
                own == ThreatsOf(last.ret, keyword)
                rows == WindowRows(keyword, 30)
            IN IF FellOutOfTop20(keyword)
               THEN /\ Len(own) = 1
                    /\ own[1].type = "displacement"
                    /\ own[1].threat_level = "critical" <=> LastOf(rows).position > 50
                    /\ own[1].threat_level = "warning" <=> LastOf(rows).position <= 50
                    /\ own[1].positions_lost
                          = LastOf(rows).position - FirstOf(rows).position
               ELSE own = <<>>

\* One run found the displacement 15 -> 55 (critical, 40 positions lost) and
\* a warning displacement that started at position 20 exactly.
C17_Witness ==
    /\ last.op = "detect_displacements"
    /\ last.failing = "none"
    /\ \E i \in DOMAIN last.ret :
          /\ last.ret[i].keyword = "k2"
          /\ last.ret[i].old_position = 15
          /\ last.ret[i].positions_lost = 40
          /\ last.ret[i].threat_level = "critical"
    /\ \E i \in DOMAIN last.ret :
          /\ last.ret[i].keyword = "k1"
          /\ last.ret[i].old_position = 20
          /\ last.ret[i].threat_level = "warning"

\* Histories for the trend assessment: four keywords, each absent or with one
\* of a few trajectories over four occasions (the first outside the window).
TrendSlots ==
    <<Slot(-8, 0, "yandex"), Slot(-2, 0, "yandex"), Slot(-1, 0, "yandex"),
      Slot(0, 0, "yandex")>>
Trajectories ==
    {<<>>,
     (2 :> 1 @@ 3 :> 2 @@ 4 :> 3),
     (2 :> 3 @@ 3 :> 2 @@ 4 :> 1),
     (2 :> 2 @@ 3 :> 2 @@ 4 :> 3),
     (2 :> 1 @@ 3 :> NULL @@ 4 :> 3),
     (1 :> 1 @@ 3 :> 2 @@ 4 :> 3)}
TrendKeywords == 4

InitTrends ==
    \E o \in [1 .. TrendKeywords -> Trajectories] :
        InitHistory(TrendKeywords,
                    UNION {HistoryRows(i, TrendSlots, o[i]) : i \in 1 .. TrendKeywords})

NextTrends == AssessOverallSituation

SpecTrends == InitTrends /\ [][NextTrends]_vars

\* C18: the project status is the first match of: more than half of the
\* classified keywords declining -> critical/negative; more than 3 in 10
\* declining -> warning/slightly_negative; more than half improving ->
\* good/positive; otherwise stable/neutral.
C18_TrendAggregation ==
    (last.op = "assess_overall_situation" /\ last.failing = "none") =>
        LET trends == last.ret.keyword_trends
            total == Len(trends)
            declining == Cardinality({i \in DOMAIN trends : trends[i].trend = "declining"})
            improving == Cardinality({i \in DOMAIN trends : trends[i].trend = "improving"})
            status == last.ret.assessment
        IN IF total > 0 /\ 2 * declining > total
           THEN status.overall_status = "critical" /\ status.trend = "negative"
           ELSE IF total > 0 /\ 10 * declining > 3 * total
           THEN status.overall_status = "warning" /\ status.trend = "slightly_negative"
           ELSE IF total > 0 /\ 2 * improving > total
           THEN status.overall_status = "good" /\ status.trend = "positive"
           ELSE status.overall_status = "stable" /\ status.trend = "neutral"

\* Three classified keywords, one declining and two improving: the warning
\* rule matches before the improvement rule.
C18_Witness ==
    /\ last.op = "assess_overall_situation"
    /\ last.failing = "none"
    /\ Len(last.ret.keyword_trends) = 3
    /\ CountTrend(last.ret.keyword_trends, "declining") = 1
    /\ CountTrend(last.ret.keyword_trends, "improving") = 2
    /\ last.ret.assessment.overall_status = "warning"

\* Histories for the trend of single keywords: the first keyword observed on
\* any of five occasions, four of them inside the 7-day window, with or
\* without a position; the second keyword absent, improving, or improving
\* with a missing position at the end.
ClassifySlots ==
    <<Slot(-8, 0, "yandex"), Slot(-2, 0, "yandex"), Slot(-1, 0, "yandex"),
      Slot(0, 0, "yandex"), Slot(0, 1, "google")>>
ClassifyPositions == {NULL, 1, 2, 3}
SecondKeywordTrends ==
    {<<>>, (2 :> 3 @@ 3 :> 2 @@ 4 :> 1), (2 :> 3 @@ 3 :> 2 @@ 4 :> 1 @@ 5 :> NULL)}

InitClassify ==
    \E o1 \in Observations(ClassifySlots, ClassifyPositions), o2 \in SecondKeywordTrends :
        InitHistory(2, HistoryRows(1, ClassifySlots, o1)
                       \cup HistoryRows(2, ClassifySlots, o2))

NextClassify == AssessOverallSituation

SpecClassify == InitClassify /\ [][NextClassify]_vars

\* The three most recent observations of a keyword in the window, oldest
\* first; defined for a keyword with at least three.
LastThree(keyword) ==
    LET rows == WindowRows(keyword, DaysToAnalyze)
        r3 == LastOf(rows)
        r2 == LastOf(rows \ {r3})
        r1 == LastOf(rows \ {r3, r2})
    IN <<r1, r2, r3>>

AllNumeric(three) == \A i \in 1 .. 3 : three[i].position # NULL

\* improving iff p0 > p1 > p2, declining iff p0 < p1 < p2, else fluctuating.
ExpectedTrend(three) ==
    IF AllNumeric(three) /\ three[1].position > three[2].position
                        /\ three[2].position > three[3].position
    THEN "improving"
    ELSE IF AllNumeric(three) /\ three[1].position < three[2].position
                             /\ three[2].position < three[3].position
    THEN "declining"
    ELSE "fluctuating"

\* C27 as stated: every keyword with at least 3 observations in the window is
\* classified by the positions of its three most recent observations, and
\* only keywords classified this way are counted.
C27_TrendOfEveryKeyword ==
    (last.op = "assess_overall_situation" /\ last.failing = "none") =>
        \A j \in DOMAIN KeywordNames :
            LET own == ThreatsOf(last.ret.keyword_trends, KeywordNames[j]) IN
            IF Cardinality(WindowRows(KeywordNames[j], DaysToAnalyze)) >= 3
            THEN /\ Len(own) = 1
                 /\ own[1].trend = ExpectedTrend(LastThree(KeywordNames[j]))
            ELSE own = <<>>

\* C27, amended: a keyword is classified when it has at least 3 observations
\* in the window and its three most recent observations all have a numeric
\* position, by the rule on those three positions; any other keyword is
\* neither classified nor counted.
C27_TrendClassification ==
    (last.op = "assess_overall_situation" /\ last.failing = "none") =>
        /\ \A j \in DOMAIN KeywordNames :
              LET own == ThreatsOf(last.ret.keyword_trends, KeywordNames[j]) IN
              IF /\ Cardinality(WindowRows(KeywordNames[j], DaysToAnalyze)) >= 3
                 /\ AllNumeric(LastThree(KeywordNames[j]))
              THEN /\ Len(own) = 1
                   /\ own[1].trend = ExpectedTrend(LastThree(KeywordNames[j]))
              ELSE own = <<>>
        /\ \A i \in DOMAIN last.ret.keyword_trends :
              \E j \in DOMAIN KeywordNames :
                  last.ret.keyword_trends[i].keyword = KeywordNames[j]

\* A keyword with four observations in the window, 3 then 1, 2, 3, was
\* classified as declining, and a keyword improving over three observations
\* with a missing position after them was not classified.
C27_Witness ==
    /\ last.op = "assess_overall_situation"
    /\ last.failing = "none"
    /\ Len(last.ret.keyword_trends) = 1
    /\ last.ret.keyword_trends[1].keyword = "k1"
    /\ last.ret.keyword_trends[1].trend = "declining"
    /\ Cardinality(WindowRows("k1", DaysToAnalyze)) = 4
    /\ \E r \in WindowRows("k1", DaysToAnalyze) :
          r.position = 3 /\ \A o \in WindowRows("k1", DaysToAnalyze) : ~Before(o, r)
    /\ Cardinality(WindowRows("k2", DaysToAnalyze)) = 4
    /\ ~AllNumeric(LastThree("k2"))

\* Histories for whole analysis runs: the first keyword observed on any of
\* three days, the second absent or dropping.
AnalysisSlots ==
    <<Slot(-2, 0, "yandex"), Slot(-1, 0, "yandex"), Slot(0, 0, "yandex")>>
AnalysisPositions == {5, 15, 21, 55}
SecondKeywordAnalyses == {<<>>, (2 :> 5 @@ 3 :> 15)}

InitAnalysis ==
    \E o1 \in Observations(AnalysisSlots, AnalysisPositions),
       o2 \in SecondKeywordAnalyses :
        InitHistory(2, HistoryRows(1, AnalysisSlots, o1)
                       \cup HistoryRows(2, AnalysisSlots, o2))

NextAnalysis == AnalyzeProject

SpecAnalysis == InitAnalysis /\ [][NextAnalysis]_vars

\* C20: an analysis run without threats returns the continue-monitoring
\* recommendation, and a run with a threat returns some recommendation.
C20_RecommendationsAlways ==
    last.op = "analyze_project" =>
        /\ last.ret.threats = <<>> =>
              \E i \in DOMAIN last.ret.recommendations :
                  last.ret.recommendations[i].kind = "continue_monitoring"
        /\ last.ret.threats # <<>> => last.ret.recommendations # <<>>

\* ------------------------------------------------------ session attribution
\* The rows behind get_session_positions over a positions table: positions p
\* JOIN keywords k ON p.keyword_id = k.id WHERE p.session_id = ?
session_rows(rows, session_id) ==
    {pk \in rows \X keywords :
        pk[1].keyword_id = pk[2].id /\ pk[1].session_id = session_id}

\* The dicts of the selected columns; id, the position row a dict was read
\* from, is kept to tell observations apart.
session_positions(rows, session_id) ==
    {[id |-> pk[1].id, check_date |-> pk[1].check_date,
      check_time |-> pk[1].check_time, keyword |-> pk[2].keyword,
      position |-> pk[1].position, url |-> pk[1].url,
      search_engine |-> pk[1].search_engine,
      total_results |-> pk[1].total_results] : pk \in session_rows(rows, session_id)}

get_session_positions(session_id) == session_positions(positions, session_id)

\* A store with the project of site.ru and its two keywords, and no position.
InitAttribution == InitHistory(2, {})

NextAttribution == SavePosition

SpecAttribution == InitAttribution /\ [][NextAttribution]_vars

\* The sessions in whose position list, read from the given positions table,
\* the observation with the id appears.
SessionsListing(rows, id) ==
    {s \in SessionIds : \E d \in session_positions(rows, s) : d.id = id}

\* C30: a position observation is listed under the most recent non-null
\* session that wrote its key: a save_position call with a session puts the
\* row of its key into that session's list and into no other, a call without
\* a session and the rows of other keys leave the lists as they are, and no
\* observation appears twice in the lists of all sessions taken together.
C30_AttributedToLatestSession ==
    [][last'.op = "save_position" =>
          /\ \A s1 \in SessionIds, s2 \in SessionIds :
                \A x \in session_rows(positions', s1), y \in session_rows(positions', s2) :
                    x[1].id = y[1].id => (s1 = s2 /\ x = y)
          /\ last'.args.session_id # NULL =>
                SessionsListing(positions', last'.ret) = {last'.args.session_id}
          /\ last'.args.session_id = NULL =>
                SessionsListing(positions', last'.ret) = SessionsListing(positions, last'.ret)
          /\ \A r \in positions :
                r.id # last'.ret =>
                    SessionsListing(positions', r.id) = SessionsListing(positions, r.id)]_vars

\* A call of session 2 rewrote a row written under session 1: the row is in
\* the list of session 2 and no longer in that of session 1, which still
\* lists another row.
C30_Witness ==
    /\ last.op = "save_position"
    /\ last.tagged = {1}
    /\ last.args.session_id = 2
    /\ \E d \in get_session_positions(2) : d.id = last.ret
    /\ \A d \in get_session_positions(1) : d.id # last.ret
    /\ get_session_positions(1) # {}

====
